---- MODULE Spec2Model ----
(***************************************************************************)
(* Model of the RAG index service of the kagent controller:                *)
(*   go/internal/httpserver/handlers/rag_indices.go  (HTTP handlers)       *)
(*   go/internal/minio/client.go                     (object-store wrapper)*)
(* Every handler is a sequence of object-store / status-store calls.  Each *)
(* call is one atomic step; requests of different clients interleave       *)
(* between calls, every call may fail, and a request may be abandoned      *)
(* between two calls (process crash).                                      *)
(*                                                                         *)
(* Two more components share the module:                                   *)
(*   the tool registry reconciler of kagent-rag-mcp, which polls the index *)
(*   listing and registers one query tool per index;                       *)
(*   go/internal/a2a/a2a_handler_mux.go, the routing table of agent        *)
(*   handlers behind a read/write lock;                                    *)
(*   go/internal/httpserver/auth/authz.go, the role check of an agent      *)
(*   request, and go/internal/httpserver/handlers/roles.go, the HTTP       *)
(*   handlers of the role table.                                           *)
(***************************************************************************)
EXTENDS Integers, Sequences, FiniteSets, TLC

VARIABLES
    \* the object store, the status store and the requests in flight
    buckets, objects, notification, statuses, req,
    \* the reconciler: registered query tools, the timer callbacks, the
    \* cycle-in-progress guard, the log entry of the last cycle that ended,
    \* the answer to the last tool invocation
    registry, cycle, inProgress, lastCycle, invoked,
    \* the handler mux: handlers map, its lock, whether an authorizer is
    \* configured, the goroutines calling into the mux
    handlers, lock, authorizer, thread,
    \* roles and agents: the role table, the Agent resources of the cluster,
    \* the role requests in flight, the call of RBACAuthorizer.Check
    roles, agents, rolereq, check

svars == <<buckets, objects, notification, statuses, req>>
rvars == <<registry, cycle, inProgress, lastCycle, invoked>>
mvars == <<handlers, lock, authorizer, thread>>
kvars == <<roles, agents, rolereq, check>>
vars == <<svars, rvars, mvars, kvars>>

(***************************************************************************)
(* Bounds of the model.                                                    *)
(***************************************************************************)
\* time.Now() takes a value in 1..MaxTime
MaxTime == 1

\* the requests that can be in flight at the same time
Slots == {1, 2}
Times == 1..MaxTime

(***************************************************************************)
(* Strings.  Go indexes strings by character; Chars gives the characters   *)
(* of every string the model uses.                                         *)
(***************************************************************************)
metadataFile == ".metadata.json"

\* a name of 63 characters and one of 64
Name63 == "aaaaaaaaaaaaaaaaaaaaaaaaaaaaaaaaaaaaaaaaaaaaaaaaaaaaaaaaaaaaaaa"
Name64 == "aaaaaaaaaaaaaaaaaaaaaaaaaaaaaaaaaaaaaaaaaaaaaaaaaaaaaaaaaaaaaaaa"

Chars(s) ==
    CASE s = ""               -> << >>
      [] s = "a"              -> <<"a">>
      [] s = "k-b"            -> <<"k", "-", "b">>
      [] s = "kb-"            -> <<"k", "b", "-">>
      [] s = "k_b"            -> <<"k", "_", "b">>
      [] s = Name63           -> [i \in 1..63 |-> "a"]
      [] s = Name64           -> [i \in 1..64 |-> "a"]
      [] s = "kb1"            -> <<"k", "b", "1">>
      [] s = "-kb"            -> <<"-", "k", "b">>
      [] s = "Kb1"            -> <<"K", "b", "1">>
      [] s = ".metadata.json" -> <<".", "m", "e", "t", "a", "d", "a", "t", "a",
                                   ".", "j", "s", "o", "n">>
      [] s = "D.MD"           -> <<"D", ".", "M", "D">>
      [] s = "x.exe"          -> <<"x", ".", "e", "x", "e">>
      [] s = "noext"          -> <<"n", "o", "e", "x", "t">>

LowerLetters == <<"a", "b", "c", "d", "e", "f", "g", "h", "i", "j", "k", "l", "m",
                  "n", "o", "p", "q", "r", "s", "t", "u", "v", "w", "x", "y", "z">>
UpperLetters == <<"A", "B", "C", "D", "E", "F", "G", "H", "I", "J", "K", "L", "M",
                  "N", "O", "P", "Q", "R", "S", "T", "U", "V", "W", "X", "Y", "Z">>
Digits == {"0", "1", "2", "3", "4", "5", "6", "7", "8", "9"}

Range(f) == {f[i] : i \in DOMAIN f}

\* strings.ToLower, one character
ToLowerChar(c) ==
    IF c \in Range(UpperLetters)
    THEN LowerLetters[CHOOSE i \in DOMAIN UpperLetters : UpperLetters[i] = c]
    ELSE c

\* strings.ToLower
ToLower(cs) == [i \in DOMAIN cs |-> ToLowerChar(cs[i])]

isAlphanumeric(c) == c \in Range(LowerLetters) \/ c \in Digits

\* isValidIndexName without the rule on the first and the last character
isValidIndexName_NoEdgeCheck(name) ==
    LET cs == Chars(name) IN
    IF Len(cs) = 0 \/ Len(cs) > 63 THEN FALSE
    ELSE IF \E i \in DOMAIN cs : ~isAlphanumeric(cs[i]) /\ cs[i] # "-" THEN FALSE
    ELSE cs = ToLower(cs)

isValidIndexName(name) ==
    LET cs == Chars(name) IN
    IF Len(cs) = 0 \/ Len(cs) > 63 THEN FALSE
    ELSE IF ~isAlphanumeric(cs[1]) \/ ~isAlphanumeric(cs[Len(cs)]) THEN FALSE
    ELSE IF \E i \in DOMAIN cs : ~isAlphanumeric(cs[i]) /\ cs[i] # "-" THEN FALSE
    ELSE cs = ToLower(cs)

\* filepath.Ext: the suffix beginning at the last dot of the last path element
Ext(filename) ==
    LET cs   == Chars(filename)
        dots == {i \in DOMAIN cs : cs[i] = "." /\ \A j \in i..Len(cs) : cs[j] # "/"}
    IN  IF dots = {} THEN << >>
        ELSE LET d == CHOOSE i \in dots : \A j \in dots : j <= i
             IN  SubSeq(cs, d, Len(cs))

\* an allowlist that also admits executables
supportedExtensions_WithExe ==
    { <<".", "t", "x", "t">>, <<".", "m", "d">>, <<".", "j", "s", "o", "n">>,
      <<".", "c", "s", "v">>, <<".", "d", "o", "c", "x">>, <<".", "p", "d", "f">>,
      <<".", "e", "x", "e">> }

supportedExtensions ==
    { <<".", "t", "x", "t">>, <<".", "m", "d">>, <<".", "j", "s", "o", "n">>,
      <<".", "c", "s", "v">>, <<".", "d", "o", "c", "x">>, <<".", "p", "d", "f">> }

(***************************************************************************)
(* Inputs of the requests.                                                 *)
(***************************************************************************)
\* names a CreateIndex request may carry
NameInputs == {"kb1", "-kb", "Kb1", ""}
\* names that pass the naming rule: the buckets that can exist
BucketNames == {n \in NameInputs : isValidIndexName(n)}
\* every name the model sends to CreateIndex, and those that can name a bucket
AllNames == NameInputs \cup {"a", "k-b", "kb-", "k_b", Name63, Name64}
ValidNames == {n \in AllNames : isValidIndexName(n)}
DescInputs == {"", "handbook"}
\* file names of an upload; D.MD is the one that is accepted
FileInputs == {metadataFile, "D.MD", "x.exe", "noext"}
\* file names in the path of a document or status request
PathFiles == {metadataFile, "D.MD"}
StatusFiles == {"D.MD"}
\* the status of a status-update request: a lifecycle value, a value outside
\* the lifecycle, none
StatusInputs == {"completed", "bogus", ""}

\* object keys in the order ListObjects returns them (byte order)
KeyOrder == <<metadataFile, "D.MD">>

(***************************************************************************)
(* Index metadata and its JSON form.                                       *)
(***************************************************************************)
\* the zero value of RAGIndex
NoIndex == [name |-> "", description |-> "", created_at |-> 0]

RAGIndex(name, description, createdAt) ==
    [name |-> name, description |-> description, created_at |-> createdAt]

\* the content of an uploaded document: bytes that are not the metadata JSON
Blob == [blob |-> 1]

\* json.Marshal with the description field left out of the encoding
json_Marshal_NoDescription(index) ==
    [name |-> index.name, created_at |-> index.created_at]

\* json.Marshal of a RAGIndex: description carries omitempty
json_Marshal(index) ==
    IF index.description = ""
    THEN [name |-> index.name, created_at |-> index.created_at]
    ELSE [name |-> index.name, description |-> index.description,
          created_at |-> index.created_at]

\* json.Unmarshal into a RAGIndex: fields that are absent keep the zero value
json_Unmarshal(data) ==
    IF "blob" \in DOMAIN data
    THEN [err |-> TRUE, index |-> NoIndex]
    ELSE [err |-> FALSE,
          index |-> [name        |-> IF "name" \in DOMAIN data THEN data.name ELSE "",
                     description |-> IF "description" \in DOMAIN data
                                     THEN data.description ELSE "",
                     created_at  |-> IF "created_at" \in DOMAIN data
                                     THEN data.created_at ELSE 0]]

(***************************************************************************)
(* The stores.  st is a record of the four store variables.                *)
(***************************************************************************)
NoObjects == [k \in {} |-> Blob]
NoStatuses == [k \in {} |-> ""]

St == [buckets |-> buckets, objects |-> objects,
       notification |-> notification, statuses |-> statuses]

\* minio-go checks a bucket name before it sends a request: 3 to 63 characters
CheckValidBucketName(bucketName) ==
    Len(Chars(bucketName)) >= 3 /\ Len(Chars(bucketName)) <= 63

\* minio-go BucketExists
BucketExists(st, bucketName, fault) ==
    IF fault \/ ~CheckValidBucketName(bucketName)
    THEN [err |-> TRUE, exists |-> FALSE]
    ELSE [err |-> FALSE, exists |-> bucketName \in st.buckets]

\* minio-go MakeBucket: fails when the bucket exists
MakeBucket(st, bucketName, fault) ==
    IF fault \/ ~CheckValidBucketName(bucketName) \/ bucketName \in st.buckets
    THEN [err |-> TRUE, st |-> st]
    ELSE [err |-> FALSE,
          st |-> [st EXCEPT !.buckets = @ \cup {bucketName},
                            !.objects[bucketName] = NoObjects]]

\* minio-go ListObjects: the keys of the bucket
ListObjects(st, bucketName, fault) ==
    IF fault \/ bucketName \notin st.buckets
    THEN [err |-> TRUE, keys |-> {}]
    ELSE [err |-> FALSE, keys |-> DOMAIN st.objects[bucketName]]

\* minio-go RemoveObject: removing an absent key of an existing bucket succeeds
RemoveObject(st, bucketName, key, fault) ==
    IF fault \/ bucketName \notin st.buckets
    THEN [err |-> TRUE, st |-> st]
    ELSE [err |-> FALSE,
          st |-> [st EXCEPT !.objects[bucketName] =
                     [k \in (DOMAIN @) \ {key} |-> @[k]]]]

\* minio-go RemoveBucket: fails on an absent or non-empty bucket; the
\* notification configuration goes with the bucket
RemoveBucket(st, bucketName, fault) ==
    IF fault \/ bucketName \notin st.buckets
             \/ DOMAIN st.objects[bucketName] # {}
    THEN [err |-> TRUE, st |-> st]
    ELSE [err |-> FALSE,
          st |-> [st EXCEPT !.buckets = @ \ {bucketName},
                            !.notification = @ \ {bucketName}]]

\* minio-go PutObject
PutObject(st, bucketName, key, data, fault) ==
    IF fault \/ bucketName \notin st.buckets
    THEN [err |-> TRUE, st |-> st]
    ELSE [err |-> FALSE,
          st |-> [st EXCEPT !.objects[bucketName] =
                     [k \in (DOMAIN @) \cup {key} |-> IF k = key THEN data ELSE @[k]]]]

\* Client.GetObject: the bytes of the object, an error when it cannot be read
GetObject(st, bucketName, key, fault) ==
    IF fault \/ bucketName \notin st.buckets
             \/ key \notin DOMAIN st.objects[bucketName]
    THEN [err |-> TRUE, data |-> Blob]
    ELSE [err |-> FALSE, data |-> st.objects[bucketName][key]]

\* Client.ListBuckets
ListBuckets(st, fault) ==
    IF fault THEN [err |-> TRUE, names |-> {}]
    ELSE [err |-> FALSE, names |-> st.buckets]

\* Client.SetBucketNotification: arms the webhook of the bucket; re-arming
\* an armed bucket changes nothing
SetBucketNotification(st, bucketName, fault) ==
    IF fault \/ bucketName \notin st.buckets
    THEN [err |-> TRUE, st |-> st]
    ELSE [err |-> FALSE, st |-> [st EXCEPT !.notification = @ \cup {bucketName}]]

\* getIndexMetadata
getIndexMetadata(st, bucketName, fault) ==
    LET got == GetObject(st, bucketName, metadataFile, fault) IN
    IF got.err THEN [err |-> TRUE, index |-> NoIndex]
    ELSE json_Unmarshal(got.data)

\* putIndexMetadata
putIndexMetadata(st, bucketName, index, fault) ==
    PutObject(st, bucketName, metadataFile, json_Marshal(index), fault)

(***************************************************************************)
(* The status store (DatabaseService).                                     *)
(***************************************************************************)
\* StoreDocumentStatus: inserts the row of (index, filename); an existing
\* row is left as it is
StoreDocumentStatus(st, indexName, filename, status, fault) ==
    IF fault THEN [err |-> TRUE, st |-> st]
    ELSE IF <<indexName, filename>> \in DOMAIN st.statuses
    THEN [err |-> TRUE, st |-> st]
    ELSE [err |-> FALSE,
          st |-> [st EXCEPT !.statuses =
                     [k \in (DOMAIN @) \cup {<<indexName, filename>>} |->
                         IF k = <<indexName, filename>> THEN status ELSE @[k]]]]

\* UpdateDocumentStatus: upserts the row of (index, filename)
UpdateDocumentStatus(st, indexName, filename, status, fault) ==
    IF fault THEN [err |-> TRUE, st |-> st]
    ELSE [err |-> FALSE,
          st |-> [st EXCEPT !.statuses =
                     [k \in (DOMAIN @) \cup {<<indexName, filename>>} |->
                         IF k = <<indexName, filename>> THEN status ELSE @[k]]]]

\* DeleteDocumentStatus: deletes the row of (index, filename), if any
DeleteDocumentStatus(st, indexName, filename, fault) ==
    IF fault THEN [err |-> TRUE, st |-> st]
    ELSE [err |-> FALSE,
          st |-> [st EXCEPT !.statuses =
                     [k \in (DOMAIN @) \ {<<indexName, filename>>} |-> @[k]]]]

\* DeleteDocumentStatusesForIndex: deletes every row of the index
DeleteDocumentStatusesForIndex(st, indexName, fault) ==
    IF fault THEN [err |-> TRUE, st |-> st]
    ELSE [err |-> FALSE,
          st |-> [st EXCEPT !.statuses =
                     [k \in {x \in DOMAIN @ : x[1] # indexName} |-> @[k]]]]

\* ListDocumentStatusesForIndex: the rows of the index, filename -> status
ListDocumentStatusesForIndex(st, indexName, fault) ==
    IF fault THEN [err |-> TRUE, rows |-> NoStatuses]
    ELSE [err |-> FALSE,
          rows |-> [f \in {x[2] : x \in {y \in DOMAIN st.statuses : y[1] = indexName}}
                       |-> st.statuses[<<indexName, f>>]]]

(***************************************************************************)
(* Requests.  A request slot holds the operation, its arguments, the next  *)
(* store call (pc), the handler's local variables and the response.        *)
(***************************************************************************)
NoResp == [code |-> 0, msg |-> "", index |-> NoIndex, items |-> {}]

IdleReq == [op |-> "none", name |-> "", file |-> "", desc |-> "", status |-> "",
            pc |-> "idle", todo |-> {}, metadata |-> NoIndex, acc |-> {},
            fail |-> "", resp |-> NoResp]

\* the inputs of one step: whether the store call fails, and the clock
NoFault == [fault |-> FALSE, now |-> 1]
StepInputs == [fault : BOOLEAN, now : Times]
\* the inputs of a step that does not read the clock
FaultInputs == [fault : BOOLEAN, now : {1}]

Goto(st, rq, pc) == [st |-> st, rq |-> [rq EXCEPT !.pc = pc]]

\* RespondWithError / RespondWithJSON
Respond(st, rq, code, msg) ==
    [st |-> st,
     rq |-> [rq EXCEPT !.pc = "done", !.resp = [NoResp EXCEPT !.code = code, !.msg = msg]]]

RespondIndex(st, rq, code, msg, index) ==
    [st |-> st,
     rq |-> [rq EXCEPT !.pc = "done",
                       !.resp = [NoResp EXCEPT !.code = code, !.msg = msg, !.index = index]]]

RespondItems(st, rq, code, msg, items) ==
    [st |-> st,
     rq |-> [rq EXCEPT !.pc = "done",
                       !.resp = [NoResp EXCEPT !.code = code, !.msg = msg, !.items = items]]]

\* the first element of the sequence order that is in the set s
First(order, s) == order[CHOOSE i \in DOMAIN order :
                           order[i] \in s /\ \A j \in 1..(i - 1) : order[j] \notin s]

BucketOrder == <<"k-b", "kb1">>

\* DeleteBucket that returns once the objects are removed and leaves the
\* emptied bucket in place
DeleteBucket_KeepsBucket(st, rq, fault) ==
    CASE rq.pc = "DeleteBucket.ListObjects" ->
           LET l == ListObjects(st, rq.name, fault) IN
           IF l.err THEN [st |-> st, rq |-> rq, ret |-> "err"]
           ELSE [st |-> st,
                 rq |-> [rq EXCEPT !.todo = l.keys,
                                   !.pc = IF l.keys = {} THEN "DeleteBucket.RemoveBucket"
                                          ELSE "DeleteBucket.RemoveObject"],
                 ret |-> "cont"]
      [] rq.pc = "DeleteBucket.RemoveObject" ->
           LET key == First(KeyOrder, rq.todo)
               r   == RemoveObject(st, rq.name, key, fault)
               rest == rq.todo \ {key}
           IN  IF r.err THEN [st |-> st, rq |-> rq, ret |-> "err"]
               ELSE [st |-> r.st,
                     rq |-> [rq EXCEPT !.todo = rest,
                                       !.pc = IF rest = {} THEN "DeleteBucket.RemoveBucket"
                                              ELSE "DeleteBucket.RemoveObject"],
                     ret |-> "cont"]
      [] rq.pc = "DeleteBucket.RemoveBucket" ->
           IF fault THEN [st |-> st, rq |-> rq, ret |-> "err"]
           ELSE [st |-> st, rq |-> [rq EXCEPT !.todo = {}], ret |-> "ok"]

\* Client.DeleteBucket: list the objects, remove them one by one, remove the
\* bucket.  ret is "cont" while the deletion is under way, then "ok" or "err".
DeleteBucket(st, rq, fault) ==
    CASE rq.pc = "DeleteBucket.ListObjects" ->
           LET l == ListObjects(st, rq.name, fault) IN
           IF l.err THEN [st |-> st, rq |-> rq, ret |-> "err"]
           ELSE [st |-> st,
                 rq |-> [rq EXCEPT !.todo = l.keys,
                                   !.pc = IF l.keys = {} THEN "DeleteBucket.RemoveBucket"
                                          ELSE "DeleteBucket.RemoveObject"],
                 ret |-> "cont"]
      [] rq.pc = "DeleteBucket.RemoveObject" ->
           LET key == First(KeyOrder, rq.todo)
               r   == RemoveObject(st, rq.name, key, fault)
               rest == rq.todo \ {key}
           IN  IF r.err THEN [st |-> st, rq |-> rq, ret |-> "err"]
               ELSE [st |-> r.st,
                     rq |-> [rq EXCEPT !.todo = rest,
                                       !.pc = IF rest = {} THEN "DeleteBucket.RemoveBucket"
                                              ELSE "DeleteBucket.RemoveObject"],
                     ret |-> "cont"]
      [] rq.pc = "DeleteBucket.RemoveBucket" ->
           LET r == RemoveBucket(st, rq.name, fault) IN
           IF r.err THEN [st |-> st, rq |-> rq, ret |-> "err"]
           ELSE [st |-> r.st, rq |-> [rq EXCEPT !.todo = {}], ret |-> "ok"]

InDeleteBucket(rq) ==
    rq.pc \in {"DeleteBucket.ListObjects", "DeleteBucket.RemoveObject",
               "DeleteBucket.RemoveBucket"}

\* CreateBucket that reports an existing bucket as an error
CreateBucket_FailsIfExists(st, rq, fault) ==
    CASE rq.pc = "CreateBucket.BucketExists" ->
           LET e == BucketExists(st, rq.name, fault) IN
           IF e.err \/ e.exists THEN [st |-> st, rq |-> rq, ret |-> "err"]
           ELSE [st |-> st, rq |-> [rq EXCEPT !.pc = "CreateBucket.MakeBucket"],
                 ret |-> "cont"]
      [] rq.pc = "CreateBucket.MakeBucket" ->
           LET m == MakeBucket(st, rq.name, fault) IN
           IF m.err THEN [st |-> st, rq |-> rq, ret |-> "err"]
           ELSE [st |-> m.st, rq |-> rq, ret |-> "ok"]

\* Client.CreateBucket: BucketExists, then MakeBucket unless the bucket exists
CreateBucket(st, rq, fault) ==
    CASE rq.pc = "CreateBucket.BucketExists" ->
           LET e == BucketExists(st, rq.name, fault) IN
           IF e.err THEN [st |-> st, rq |-> rq, ret |-> "err"]
           ELSE IF e.exists THEN [st |-> st, rq |-> rq, ret |-> "ok"]
           ELSE [st |-> st, rq |-> [rq EXCEPT !.pc = "CreateBucket.MakeBucket"],
                 ret |-> "cont"]
      [] rq.pc = "CreateBucket.MakeBucket" ->
           LET m == MakeBucket(st, rq.name, fault) IN
           IF m.err THEN [st |-> st, rq |-> rq, ret |-> "err"]
           ELSE [st |-> m.st, rq |-> rq, ret |-> "ok"]

InCreateBucket(rq) ==
    rq.pc \in {"CreateBucket.BucketExists", "CreateBucket.MakeBucket"}

\* CreateIndex that answers with the error of a failed rollback
HandleCreateRAGIndex_ReportsCleanupError(st, rq, in) ==
    CASE rq.pc = "BucketExists" ->
           IF rq.name = ""
           THEN Respond(st, rq, 400, "Index name is required")
           ELSE IF ~isValidIndexName(rq.name)
           THEN Respond(st, rq, 400,
                        "Index name must be lowercase alphanumeric with hyphens only")
           ELSE LET e == BucketExists(st, rq.name, in.fault) IN
                IF e.err THEN Respond(st, rq, 500, "Failed to check index")
                ELSE IF e.exists THEN Respond(st, rq, 409, "RAG index already exists")
                ELSE Goto(st, rq, "CreateBucket.BucketExists")
      [] InCreateBucket(rq) ->
           LET c == CreateBucket(st, rq, in.fault) IN
           IF c.ret = "err" THEN Respond(st, rq, 500, "Failed to create index")
           ELSE IF c.ret = "ok" THEN Goto(c.st, c.rq, "SetBucketNotification")
           ELSE [st |-> c.st, rq |-> c.rq]
      [] rq.pc = "SetBucketNotification" ->
           LET n == SetBucketNotification(st, rq.name, in.fault) IN
           IF n.err
           THEN Goto(st, [rq EXCEPT !.fail = "Failed to configure index notifications"],
                     "DeleteBucket.ListObjects")
           ELSE Goto(n.st, rq, "putIndexMetadata")
      [] rq.pc = "putIndexMetadata" ->
           LET index == RAGIndex(rq.name, rq.desc, in.now)
               p     == putIndexMetadata(st, rq.name, index, in.fault)
           IN  IF p.err
               THEN Goto(st, [rq EXCEPT !.fail = "Failed to create index metadata"],
                         "DeleteBucket.ListObjects")
               ELSE RespondIndex(p.st, rq, 201, "Successfully created RAG index", index)
      [] InDeleteBucket(rq) ->
           LET d == DeleteBucket(st, rq, in.fault) IN
           IF d.ret = "cont" THEN [st |-> d.st, rq |-> d.rq]
           ELSE IF d.ret = "err" THEN Respond(d.st, d.rq, 500, "Failed to delete index")
           ELSE Respond(d.st, d.rq, 500, rq.fail)

\* CreateIndex that goes on to the bucket creation when the bucket exists
HandleCreateRAGIndex_NoConflict(st, rq, in) ==
    CASE rq.pc = "BucketExists" ->
           IF rq.name = ""
           THEN Respond(st, rq, 400, "Index name is required")
           ELSE IF ~isValidIndexName(rq.name)
           THEN Respond(st, rq, 400,
                        "Index name must be lowercase alphanumeric with hyphens only")
           ELSE LET e == BucketExists(st, rq.name, in.fault) IN
                IF e.err THEN Respond(st, rq, 500, "Failed to check index")
                ELSE Goto(st, rq, "CreateBucket.BucketExists")
      [] InCreateBucket(rq) ->
           LET c == CreateBucket(st, rq, in.fault) IN
           IF c.ret = "err" THEN Respond(st, rq, 500, "Failed to create index")
           ELSE IF c.ret = "ok" THEN Goto(c.st, c.rq, "SetBucketNotification")
           ELSE [st |-> c.st, rq |-> c.rq]
      [] rq.pc = "SetBucketNotification" ->
           LET n == SetBucketNotification(st, rq.name, in.fault) IN
           IF n.err
           THEN Goto(st, [rq EXCEPT !.fail = "Failed to configure index notifications"],
                     "DeleteBucket.ListObjects")
           ELSE Goto(n.st, rq, "putIndexMetadata")
      [] rq.pc = "putIndexMetadata" ->
           LET index == RAGIndex(rq.name, rq.desc, in.now)
               p     == putIndexMetadata(st, rq.name, index, in.fault)
           IN  IF p.err
               THEN Goto(st, [rq EXCEPT !.fail = "Failed to create index metadata"],
                         "DeleteBucket.ListObjects")
               ELSE RespondIndex(p.st, rq, 201, "Successfully created RAG index", index)
      [] InDeleteBucket(rq) ->
           \* rollback of the bucket creation; its error is dropped
           LET d == DeleteBucket(st, rq, in.fault) IN
           IF d.ret = "cont" THEN [st |-> d.st, rq |-> d.rq]
           ELSE Respond(d.st, d.rq, 500, rq.fail)

HandleCreateRAGIndex(st, rq, in) ==
    CASE rq.pc = "BucketExists" ->
           IF rq.name = ""
           THEN Respond(st, rq, 400, "Index name is required")
           ELSE IF ~isValidIndexName(rq.name)
           THEN Respond(st, rq, 400,
                        "Index name must be lowercase alphanumeric with hyphens only")
           ELSE LET e == BucketExists(st, rq.name, in.fault) IN
                IF e.err THEN Respond(st, rq, 500, "Failed to check index")
                ELSE IF e.exists THEN Respond(st, rq, 409, "RAG index already exists")
                ELSE Goto(st, rq, "CreateBucket.BucketExists")
      [] InCreateBucket(rq) ->
           LET c == CreateBucket(st, rq, in.fault) IN
           IF c.ret = "err" THEN Respond(st, rq, 500, "Failed to create index")
           ELSE IF c.ret = "ok" THEN Goto(c.st, c.rq, "SetBucketNotification")
           ELSE [st |-> c.st, rq |-> c.rq]
      [] rq.pc = "SetBucketNotification" ->
           LET n == SetBucketNotification(st, rq.name, in.fault) IN
           IF n.err
           THEN Goto(st, [rq EXCEPT !.fail = "Failed to configure index notifications"],
                     "DeleteBucket.ListObjects")
           ELSE Goto(n.st, rq, "putIndexMetadata")
      [] rq.pc = "putIndexMetadata" ->
           LET index == RAGIndex(rq.name, rq.desc, in.now)
               p     == putIndexMetadata(st, rq.name, index, in.fault)
           IN  IF p.err
               THEN Goto(st, [rq EXCEPT !.fail = "Failed to create index metadata"],
                         "DeleteBucket.ListObjects")
               ELSE RespondIndex(p.st, rq, 201, "Successfully created RAG index", index)
      [] InDeleteBucket(rq) ->
           \* rollback of the bucket creation; its error is dropped
           LET d == DeleteBucket(st, rq, in.fault) IN
           IF d.ret = "cont" THEN [st |-> d.st, rq |-> d.rq]
           ELSE Respond(d.st, d.rq, 500, rq.fail)

HandleGetRAGIndex(st, rq, in) ==
    CASE rq.pc = "BucketExists" ->
           LET e == BucketExists(st, rq.name, in.fault) IN
           IF e.err THEN Respond(st, rq, 500, "Failed to check index")
           ELSE IF ~e.exists THEN Respond(st, rq, 404, "RAG index not found")
           ELSE Goto(st, rq, "getIndexMetadata")
      [] rq.pc = "getIndexMetadata" ->
           LET m == getIndexMetadata(st, rq.name, in.fault) IN
           IF m.err THEN Respond(st, rq, 404, "RAG index not found")
           ELSE RespondIndex(st, rq, 200, "Successfully retrieved RAG index", m.index)

\* ListIndices that does not skip a bucket whose metadata cannot be read
HandleListRAGIndices_NoSkip(st, rq, in) ==
    CASE rq.pc = "ListBuckets" ->
           LET l == ListBuckets(st, in.fault) IN
           IF l.err THEN Respond(st, rq, 500, "Failed to list indices")
           ELSE IF l.names = {}
           THEN RespondItems(st, rq, 200, "Successfully listed RAG indices", {})
           ELSE Goto(st, [rq EXCEPT !.todo = l.names, !.acc = {}], "getIndexMetadata")
      [] rq.pc = "getIndexMetadata" ->
           LET bucket  == First(BucketOrder, rq.todo)
               m       == getIndexMetadata(st, bucket, in.fault)
               rest    == rq.todo \ {bucket}
               indices == rq.acc \cup {m.index}
           IN  IF rest = {}
               THEN RespondItems(st, [rq EXCEPT !.todo = {}, !.acc = {}], 200,
                                 "Successfully listed RAG indices", indices)
               ELSE [st |-> st, rq |-> [rq EXCEPT !.todo = rest, !.acc = indices]]

HandleListRAGIndices(st, rq, in) ==
    CASE rq.pc = "ListBuckets" ->
           LET l == ListBuckets(st, in.fault) IN
           IF l.err THEN Respond(st, rq, 500, "Failed to list indices")
           ELSE IF l.names = {}
           THEN RespondItems(st, rq, 200, "Successfully listed RAG indices", {})
           ELSE Goto(st, [rq EXCEPT !.todo = l.names, !.acc = {}], "getIndexMetadata")
      [] rq.pc = "getIndexMetadata" ->
           LET bucket  == First(BucketOrder, rq.todo)
               m       == getIndexMetadata(st, bucket, in.fault)
               rest    == rq.todo \ {bucket}
               \* a bucket whose metadata cannot be read is skipped
               indices == IF m.err THEN rq.acc ELSE rq.acc \cup {m.index}
           IN  IF rest = {}
               THEN RespondItems(st, [rq EXCEPT !.todo = {}, !.acc = {}], 200,
                                 "Successfully listed RAG indices", indices)
               ELSE [st |-> st, rq |-> [rq EXCEPT !.todo = rest, !.acc = indices]]

\* DeleteIndex that answers NotFound unless the bucket holds readable metadata
HandleDeleteRAGIndex_NeedsMetadata(st, rq, in) ==
    CASE rq.pc = "BucketExists" ->
           LET e == BucketExists(st, rq.name, in.fault) IN
           IF e.err THEN Respond(st, rq, 500, "Failed to check index")
           ELSE IF ~e.exists \/ getIndexMetadata(st, rq.name, in.fault).err
           THEN Respond(st, rq, 404, "RAG index not found")
           ELSE Goto(st, rq, "DeleteBucket.ListObjects")
      [] InDeleteBucket(rq) ->
           LET d == DeleteBucket(st, rq, in.fault) IN
           IF d.ret = "err" THEN Respond(st, [rq EXCEPT !.todo = {}], 500,
                                         "Failed to delete index")
           ELSE IF d.ret = "ok" THEN Goto(d.st, d.rq, "DeleteDocumentStatusesForIndex")
           ELSE [st |-> d.st, rq |-> d.rq]
      [] rq.pc = "DeleteDocumentStatusesForIndex" ->
           LET s == DeleteDocumentStatusesForIndex(st, rq.name, in.fault) IN
           Respond(s.st, rq, 200, "Successfully deleted RAG index")

\* DeleteIndex that fails when the status cleanup fails
HandleDeleteRAGIndex_FailsOnCleanupError(st, rq, in) ==
    CASE rq.pc = "BucketExists" ->
           LET e == BucketExists(st, rq.name, in.fault) IN
           IF e.err THEN Respond(st, rq, 500, "Failed to check index")
           ELSE IF ~e.exists THEN Respond(st, rq, 404, "RAG index not found")
           ELSE Goto(st, rq, "DeleteBucket.ListObjects")
      [] InDeleteBucket(rq) ->
           LET d == DeleteBucket(st, rq, in.fault) IN
           IF d.ret = "err" THEN Respond(st, [rq EXCEPT !.todo = {}], 500,
                                         "Failed to delete index")
           ELSE IF d.ret = "ok" THEN Goto(d.st, d.rq, "DeleteDocumentStatusesForIndex")
           ELSE [st |-> d.st, rq |-> d.rq]
      [] rq.pc = "DeleteDocumentStatusesForIndex" ->
           LET s == DeleteDocumentStatusesForIndex(st, rq.name, in.fault) IN
           IF s.err THEN Respond(st, rq, 500, "Failed to delete document statuses")
           ELSE Respond(s.st, rq, 200, "Successfully deleted RAG index")

HandleDeleteRAGIndex(st, rq, in) ==
    CASE rq.pc = "BucketExists" ->
           LET e == BucketExists(st, rq.name, in.fault) IN
           IF e.err THEN Respond(st, rq, 500, "Failed to check index")
           ELSE IF ~e.exists THEN Respond(st, rq, 404, "RAG index not found")
           ELSE Goto(st, rq, "DeleteBucket.ListObjects")
      [] InDeleteBucket(rq) ->
           LET d == DeleteBucket(st, rq, in.fault) IN
           IF d.ret = "err" THEN Respond(st, [rq EXCEPT !.todo = {}], 500,
                                         "Failed to delete index")
           ELSE IF d.ret = "ok" THEN Goto(d.st, d.rq, "DeleteDocumentStatusesForIndex")
           ELSE [st |-> d.st, rq |-> d.rq]
      [] rq.pc = "DeleteDocumentStatusesForIndex" ->
           \* an error of the status cleanup does not fail the request
           LET s == DeleteDocumentStatusesForIndex(st, rq.name, in.fault) IN
           Respond(s.st, rq, 200, "Successfully deleted RAG index")

HandleUpdateRAGIndex(st, rq, in) ==
    CASE rq.pc = "getIndexMetadata" ->
           LET m == getIndexMetadata(st, rq.name, in.fault) IN
           IF m.err THEN Respond(st, rq, 404, "RAG index not found")
           ELSE Goto(st, [rq EXCEPT !.metadata = [m.index EXCEPT !.description = rq.desc]],
                     "putIndexMetadata")
      [] rq.pc = "putIndexMetadata" ->
           LET p == putIndexMetadata(st, rq.name, rq.metadata, in.fault) IN
           IF p.err THEN Respond(st, [rq EXCEPT !.metadata = NoIndex], 500,
                                 "Failed to update index")
           ELSE RespondIndex(p.st, [rq EXCEPT !.metadata = NoIndex], 200,
                             "Successfully updated RAG index", rq.metadata)

\* ListDocuments that fails when the status listing fails
HandleListDocuments_FailsOnStatusError(st, rq, in) ==
    CASE rq.pc = "BucketExists" ->
           LET e == BucketExists(st, rq.name, in.fault) IN
           IF e.err THEN Respond(st, rq, 500, "Failed to check index")
           ELSE IF ~e.exists THEN Respond(st, rq, 404, "RAG index not found")
           ELSE Goto(st, rq, "ListObjectsInfo")
      [] rq.pc = "ListObjectsInfo" ->
           LET l == ListObjects(st, rq.name, in.fault) IN
           IF l.err THEN Respond(st, rq, 500, "Failed to list documents")
           ELSE Goto(st, [rq EXCEPT !.todo = l.keys], "ListDocumentStatusesForIndex")
      [] rq.pc = "ListDocumentStatusesForIndex" ->
           \* an error of the status listing leaves the status map empty
           LET s         == ListDocumentStatusesForIndex(st, rq.name, in.fault)
               statusMap == s.rows
               documents == {[name   |-> k,
                              status |-> IF k \in DOMAIN statusMap THEN statusMap[k] ELSE ""]
                             : k \in {o \in rq.todo : o # metadataFile}}
           IN  IF s.err THEN Respond(st, [rq EXCEPT !.todo = {}], 500,
                                     "Failed to list document statuses")
               ELSE RespondItems(st, [rq EXCEPT !.todo = {}], 200,
                                 "Successfully listed documents", documents)

HandleListDocuments(st, rq, in) ==
    CASE rq.pc = "BucketExists" ->
           LET e == BucketExists(st, rq.name, in.fault) IN
           IF e.err THEN Respond(st, rq, 500, "Failed to check index")
           ELSE IF ~e.exists THEN Respond(st, rq, 404, "RAG index not found")
           ELSE Goto(st, rq, "ListObjectsInfo")
      [] rq.pc = "ListObjectsInfo" ->
           LET l == ListObjects(st, rq.name, in.fault) IN
           IF l.err THEN Respond(st, rq, 500, "Failed to list documents")
           ELSE Goto(st, [rq EXCEPT !.todo = l.keys], "ListDocumentStatusesForIndex")
      [] rq.pc = "ListDocumentStatusesForIndex" ->
           \* an error of the status listing leaves the status map empty
           LET s         == ListDocumentStatusesForIndex(st, rq.name, in.fault)
               statusMap == s.rows
               documents == {[name   |-> k,
                              status |-> IF k \in DOMAIN statusMap THEN statusMap[k] ELSE ""]
                             : k \in {o \in rq.todo : o # metadataFile}}
           IN  RespondItems(st, [rq EXCEPT !.todo = {}], 200,
                            "Successfully listed documents", documents)

\* UploadDocument without the check of the reserved file name
HandleUploadDocument_NoReservedCheck(st, rq, in) ==
    CASE rq.pc = "BucketExists" ->
           LET e == BucketExists(st, rq.name, in.fault) IN
           IF e.err THEN Respond(st, rq, 500, "Failed to check index")
           ELSE IF ~e.exists THEN Respond(st, rq, 404, "RAG index not found")
           ELSE IF ToLower(Ext(rq.file)) \notin supportedExtensions
           THEN Respond(st, rq, 400, "Unsupported file type")
           ELSE Goto(st, rq, "UploadFile")
      [] rq.pc = "UploadFile" ->
           LET p == PutObject(st, rq.name, rq.file, Blob, in.fault) IN
           IF p.err THEN Respond(st, rq, 500, "Failed to upload file")
           ELSE Goto(p.st, rq, "StoreDocumentStatus")
      [] rq.pc = "StoreDocumentStatus" ->
           LET s == StoreDocumentStatus(st, rq.name, rq.file, "pending", in.fault) IN
           Respond(s.st, rq, 201, "Successfully uploaded document")

\* UploadDocument that writes the pending row with the upsert
HandleUploadDocument_Upserts(st, rq, in) ==
    CASE rq.pc = "BucketExists" ->
           LET e == BucketExists(st, rq.name, in.fault) IN
           IF e.err THEN Respond(st, rq, 500, "Failed to check index")
           ELSE IF ~e.exists THEN Respond(st, rq, 404, "RAG index not found")
           ELSE IF rq.file = metadataFile
           THEN Respond(st, rq, 400, "Cannot upload file with reserved name")
           ELSE IF ToLower(Ext(rq.file)) \notin supportedExtensions
           THEN Respond(st, rq, 400, "Unsupported file type")
           ELSE Goto(st, rq, "UploadFile")
      [] rq.pc = "UploadFile" ->
           LET p == PutObject(st, rq.name, rq.file, Blob, in.fault) IN
           IF p.err THEN Respond(st, rq, 500, "Failed to upload file")
           ELSE Goto(p.st, rq, "StoreDocumentStatus")
      [] rq.pc = "StoreDocumentStatus" ->
           LET s == UpdateDocumentStatus(st, rq.name, rq.file, "pending", in.fault) IN
           Respond(s.st, rq, 201, "Successfully uploaded document")

\* UploadDocument that fails when the status insert fails
HandleUploadDocument_FailsOnStatusError(st, rq, in) ==
    CASE rq.pc = "BucketExists" ->
           LET e == BucketExists(st, rq.name, in.fault) IN
           IF e.err THEN Respond(st, rq, 500, "Failed to check index")
           ELSE IF ~e.exists THEN Respond(st, rq, 404, "RAG index not found")
           ELSE IF rq.file = metadataFile
           THEN Respond(st, rq, 400, "Cannot upload file with reserved name")
           ELSE IF ToLower(Ext(rq.file)) \notin supportedExtensions
           THEN Respond(st, rq, 400, "Unsupported file type")
           ELSE Goto(st, rq, "UploadFile")
      [] rq.pc = "UploadFile" ->
           LET p == PutObject(st, rq.name, rq.file, Blob, in.fault) IN
           IF p.err THEN Respond(st, rq, 500, "Failed to upload file")
           ELSE Goto(p.st, rq, "StoreDocumentStatus")
      [] rq.pc = "StoreDocumentStatus" ->
           LET s == StoreDocumentStatus(st, rq.name, rq.file, "pending", in.fault) IN
           IF s.err THEN Respond(st, rq, 500, "Failed to store document status")
           ELSE Respond(s.st, rq, 201, "Successfully uploaded document")

HandleUploadDocument(st, rq, in) ==
    CASE rq.pc = "BucketExists" ->
           LET e == BucketExists(st, rq.name, in.fault) IN
           IF e.err THEN Respond(st, rq, 500, "Failed to check index")
           ELSE IF ~e.exists THEN Respond(st, rq, 404, "RAG index not found")
           ELSE IF rq.file = metadataFile
           THEN Respond(st, rq, 400, "Cannot upload file with reserved name")
           ELSE IF ToLower(Ext(rq.file)) \notin supportedExtensions
           THEN Respond(st, rq, 400, "Unsupported file type")
           ELSE Goto(st, rq, "UploadFile")
      [] rq.pc = "UploadFile" ->
           LET p == PutObject(st, rq.name, rq.file, Blob, in.fault) IN
           IF p.err THEN Respond(st, rq, 500, "Failed to upload file")
           ELSE Goto(p.st, rq, "StoreDocumentStatus")
      [] rq.pc = "StoreDocumentStatus" ->
           \* an error of the status insert does not fail the upload
           LET s == StoreDocumentStatus(st, rq.name, rq.file, "pending", in.fault) IN
           Respond(s.st, rq, 201, "Successfully uploaded document")

\* DeleteDocument that leaves the status row of the document
HandleDeleteDocument_KeepsStatus(st, rq, in) ==
    CASE rq.pc = "BucketExists" ->
           LET e == BucketExists(st, rq.name, in.fault) IN
           IF e.err THEN Respond(st, rq, 500, "Failed to check index")
           ELSE IF ~e.exists THEN Respond(st, rq, 404, "RAG index not found")
           ELSE IF rq.file = metadataFile
           THEN Respond(st, rq, 400, "Cannot delete reserved file")
           ELSE Goto(st, rq, "DeleteFile")
      [] rq.pc = "DeleteFile" ->
           LET d == RemoveObject(st, rq.name, rq.file, in.fault) IN
           IF d.err THEN Respond(st, rq, 500, "Failed to delete document")
           ELSE Goto(d.st, rq, "DeleteDocumentStatus")
      [] rq.pc = "DeleteDocumentStatus" ->
           Respond(st, rq, 200, "Successfully deleted document")

HandleDeleteDocument(st, rq, in) ==
    CASE rq.pc = "BucketExists" ->
           LET e == BucketExists(st, rq.name, in.fault) IN
           IF e.err THEN Respond(st, rq, 500, "Failed to check index")
           ELSE IF ~e.exists THEN Respond(st, rq, 404, "RAG index not found")
           ELSE IF rq.file = metadataFile
           THEN Respond(st, rq, 400, "Cannot delete reserved file")
           ELSE Goto(st, rq, "DeleteFile")
      [] rq.pc = "DeleteFile" ->
           LET d == RemoveObject(st, rq.name, rq.file, in.fault) IN
           IF d.err THEN Respond(st, rq, 500, "Failed to delete document")
           ELSE Goto(d.st, rq, "DeleteDocumentStatus")
      [] rq.pc = "DeleteDocumentStatus" ->
           \* an error of the status deletion does not fail the request
           LET s == DeleteDocumentStatus(st, rq.name, rq.file, in.fault) IN
           Respond(s.st, rq, 200, "Successfully deleted document")

HandleDownloadDocument(st, rq, in) ==
    CASE rq.pc = "BucketExists" ->
           LET e == BucketExists(st, rq.name, in.fault) IN
           IF e.err THEN Respond(st, rq, 500, "Failed to check index")
           ELSE IF ~e.exists THEN Respond(st, rq, 404, "RAG index not found")
           ELSE IF rq.file = metadataFile
           THEN Respond(st, rq, 400, "Cannot download reserved file")
           ELSE Goto(st, rq, "GetObject")
      [] rq.pc = "GetObject" ->
           LET g == GetObject(st, rq.name, rq.file, in.fault) IN
           IF g.err THEN Respond(st, rq, 404, "Document not found")
           ELSE RespondItems(st, rq, 200, "Successfully downloaded document",
                             {[name |-> rq.file, status |-> ""]})

\* UpdateDocumentStatus that answers NotFound when the index has no bucket
HandleUpdateDocumentStatus_NeedsBucket(st, rq, in) ==
    CASE rq.pc = "UpdateDocumentStatus" ->
           IF rq.status = "" THEN Respond(st, rq, 400, "Status is required")
           ELSE IF rq.name \notin st.buckets
           THEN Respond(st, rq, 404, "RAG index not found")
           ELSE LET u == UpdateDocumentStatus(st, rq.name, rq.file, rq.status, in.fault) IN
                IF u.err THEN Respond(st, rq, 500, "Failed to update document status")
                ELSE Respond(u.st, rq, 200, "Successfully updated document status")

HandleUpdateDocumentStatus(st, rq, in) ==
    CASE rq.pc = "UpdateDocumentStatus" ->
           IF rq.status = "" THEN Respond(st, rq, 400, "Status is required")
           ELSE LET u == UpdateDocumentStatus(st, rq.name, rq.file, rq.status, in.fault) IN
                IF u.err THEN Respond(st, rq, 500, "Failed to update document status")
                ELSE Respond(u.st, rq, 200, "Successfully updated document status")

HandleDeleteDocumentStatus(st, rq, in) ==
    CASE rq.pc = "DeleteDocumentStatus" ->
           \* an error of the status deletion does not fail the request
           LET s == DeleteDocumentStatus(st, rq.name, rq.file, in.fault) IN
           Respond(s.st, rq, 200, "Successfully deleted document status")

(***************************************************************************)
(* The requests a client can send, each at its first store call.           *)
(***************************************************************************)
NewReq(op, pc) == [IdleReq EXCEPT !.op = op, !.pc = pc]

CreateIndexReq(name, desc) ==
    [NewReq("CreateIndex", "BucketExists") EXCEPT !.name = name, !.desc = desc]
GetIndexReq(name) == [NewReq("GetIndex", "BucketExists") EXCEPT !.name = name]
ListIndicesReq == NewReq("ListIndices", "ListBuckets")
DeleteIndexReq(name) == [NewReq("DeleteIndex", "BucketExists") EXCEPT !.name = name]
UpdateIndexReq(name, desc) ==
    [NewReq("UpdateIndex", "getIndexMetadata") EXCEPT !.name = name, !.desc = desc]
ListDocumentsReq(name) == [NewReq("ListDocuments", "BucketExists") EXCEPT !.name = name]
UploadDocumentReq(name, file) ==
    [NewReq("UploadDocument", "BucketExists") EXCEPT !.name = name, !.file = file]
DeleteDocumentReq(name, file) ==
    [NewReq("DeleteDocument", "BucketExists") EXCEPT !.name = name, !.file = file]
DownloadDocumentReq(name, file) ==
    [NewReq("DownloadDocument", "BucketExists") EXCEPT !.name = name, !.file = file]
UpdateDocumentStatusReq(name, file, status) ==
    [NewReq("UpdateDocumentStatus", "UpdateDocumentStatus")
        EXCEPT !.name = name, !.file = file, !.status = status]
DeleteDocumentStatusReq(name, file) ==
    [NewReq("DeleteDocumentStatus", "DeleteDocumentStatus")
        EXCEPT !.name = name, !.file = file]

Requests ==
    {CreateIndexReq(n, d) : n \in BucketNames, d \in DescInputs}
    \cup {CreateIndexReq(n, "") : n \in NameInputs \ BucketNames}
    \cup {GetIndexReq(n) : n \in BucketNames}
    \cup {ListIndicesReq}
    \cup {DeleteIndexReq(n) : n \in BucketNames}
    \cup {UpdateIndexReq(n, d) : n \in BucketNames, d \in DescInputs}
    \cup {ListDocumentsReq(n) : n \in BucketNames}
    \cup {UploadDocumentReq(n, f) : n \in BucketNames, f \in FileInputs}
    \cup {DeleteDocumentReq(n, f) : n \in BucketNames, f \in PathFiles}
    \cup {DownloadDocumentReq(n, f) : n \in BucketNames, f \in PathFiles}
    \cup {UpdateDocumentStatusReq(n, f, s) :
             n \in BucketNames, f \in StatusFiles, s \in StatusInputs}
    \cup {DeleteDocumentStatusReq(n, f) : n \in BucketNames, f \in StatusFiles}

\* one store call of the handler of the request
Step(st, rq, in) ==
    CASE rq.op = "CreateIndex"          -> HandleCreateRAGIndex(st, rq, in)
      [] rq.op = "GetIndex"             -> HandleGetRAGIndex(st, rq, in)
      [] rq.op = "ListIndices"          -> HandleListRAGIndices(st, rq, in)
      [] rq.op = "DeleteIndex"          -> HandleDeleteRAGIndex(st, rq, in)
      [] rq.op = "UpdateIndex"          -> HandleUpdateRAGIndex(st, rq, in)
      [] rq.op = "ListDocuments"        -> HandleListDocuments(st, rq, in)
      [] rq.op = "UploadDocument"       -> HandleUploadDocument(st, rq, in)
      [] rq.op = "DeleteDocument"       -> HandleDeleteDocument(st, rq, in)
      [] rq.op = "DownloadDocument"     -> HandleDownloadDocument(st, rq, in)
      [] rq.op = "UpdateDocumentStatus" -> HandleUpdateDocumentStatus(st, rq, in)
      [] rq.op = "DeleteDocumentStatus" -> HandleDeleteDocumentStatus(st, rq, in)

\* the handler run from the request's position to its response, alone and
\* with every store call succeeding
RECURSIVE Run(_, _)
Run(st, rq) ==
    IF rq.pc = "done" THEN [st |-> st, rq |-> rq]
    ELSE LET s == Step(st, rq, NoFault) IN Run(s.st, s.rq)

(***************************************************************************)
(* The state machine.                                                      *)
(***************************************************************************)
\* the timer callbacks of the reconciler that can be running at once
Cycles == {1, 2}
\* a timer callback that is not running a cycle
NoCycle == [pc |-> "idle", poll |-> IdleReq, observed |-> {},
            register |-> {}, unregister |-> {}]
\* no tool has been invoked yet
NoInvocation == [tool |-> << >>, result |-> ""]

\* the goroutines that call into the handler mux
Threads == {1, 2, 3}
\* a goroutine that is not in a call of the mux
NoThread == [op |-> "none", pc |-> "idle", ref |-> << >>, handler |-> 0, code |-> 0,
             auth |-> "unchecked"]
NoHandlers == [k \in {} |-> 0]
\* the zero value of sync.RWMutex: no writer, no reader
Unlocked == [writer |-> 0, readers |-> {}]

\* role names, and the names and bodies role requests carry; InvalidBody
\* stands for a body that does not decode
RoleNames == {"admin", "dev"}
RoleNameInputs == {"", "admin"}
RolePathNames == {"admin"}
RoleDescs == {"ops", "all"}
InvalidBody == "<invalid>"
RoleBodies == RoleDescs \cup {InvalidBody}
\* the role requests that can be in flight at the same time
RoleSlots == {1, 2}
\* a nil *database.Role; every stored role has a name
NilRole == [name |-> "", description |-> ""]
IdleRoleReq == [op |-> "none", name |-> "", body |-> "", pc |-> "idle",
                existing |-> NilRole, code |-> 0]
NoRoles == [n \in {} |-> ""]
\* the Agent resources of the cluster: object key |-> spec.allowedRoles (the
\* list as a set: the code only tests membership and emptiness)
AgentKeys == {[namespace |-> <<"n">>, name |-> <<"a">>]}
NoAgents == [k \in {} |-> {}]
\* no call of an authorizer
NoCheck == [authorizer |-> "none", id |-> "", roles |-> {}, verb |-> "",
            type |-> "", name |-> << >>, fault |-> FALSE, result |-> "none"]

\* no role, no agent, no role request and no authorization call
InitRoles ==
    /\ roles = NoRoles
    /\ agents = NoAgents
    /\ rolereq = [r \in RoleSlots |-> IdleRoleReq]
    /\ check = NoCheck

\* the stores are empty and nothing is in flight
InitStores ==
    /\ buckets = {}
    /\ objects = [b \in ValidNames |-> NoObjects]
    /\ notification = {}
    /\ statuses = NoStatuses
    /\ req = [r \in Slots |-> IdleReq]

\* the reconciler starts with an empty registry and no cycle running
InitReconciler ==
    /\ registry = {}
    /\ cycle = [c \in Cycles |-> NoCycle]
    /\ inProgress = FALSE
    /\ lastCycle = "none"
    /\ invoked = NoInvocation

\* NewA2AHttpMux: an empty handlers map
NewA2AHttpMux(authz) ==
    /\ handlers = NoHandlers
    /\ lock = Unlocked
    /\ authorizer = authz
    /\ thread = [t \in Threads |-> NoThread]

Init ==
    /\ InitStores
    /\ InitReconciler
    /\ NewA2AHttpMux(FALSE)
    /\ InitRoles

Running(r) == req[r].pc \notin {"idle", "done"}

\* the store and the request slot after a step
Apply(r, s) ==
    /\ buckets' = s.st.buckets
    /\ objects' = s.st.objects
    /\ notification' = s.st.notification
    /\ statuses' = s.st.statuses
    /\ req' = [req EXCEPT ![r] = s.rq]
    /\ UNCHANGED <<rvars, mvars, kvars>>

\* a client sends a request
Start(r) ==
    /\ req[r].pc = "idle"
    /\ \E rq \in Requests : req' = [req EXCEPT ![r] = rq]
    /\ UNCHANGED <<buckets, objects, notification, statuses, rvars, mvars, kvars>>

\* one store call of a request in flight, for each handler
CreateIndex(r) ==
    /\ Running(r)
    /\ req[r].op = "CreateIndex"
    /\ \E in \in (IF req[r].pc = "putIndexMetadata" THEN StepInputs ELSE FaultInputs) :
          Apply(r, HandleCreateRAGIndex(St, req[r], in))

GetIndex(r) ==
    /\ Running(r)
    /\ req[r].op = "GetIndex"
    /\ \E in \in FaultInputs : Apply(r, HandleGetRAGIndex(St, req[r], in))

ListIndices(r) ==
    /\ Running(r)
    /\ req[r].op = "ListIndices"
    /\ \E in \in FaultInputs : Apply(r, HandleListRAGIndices(St, req[r], in))

DeleteIndex(r) ==
    /\ Running(r)
    /\ req[r].op = "DeleteIndex"
    /\ \E in \in FaultInputs : Apply(r, HandleDeleteRAGIndex(St, req[r], in))

UpdateIndex(r) ==
    /\ Running(r)
    /\ req[r].op = "UpdateIndex"
    /\ \E in \in FaultInputs : Apply(r, HandleUpdateRAGIndex(St, req[r], in))

ListDocuments(r) ==
    /\ Running(r)
    /\ req[r].op = "ListDocuments"
    /\ \E in \in FaultInputs : Apply(r, HandleListDocuments(St, req[r], in))

UploadDocument(r) ==
    /\ Running(r)
    /\ req[r].op = "UploadDocument"
    /\ \E in \in FaultInputs : Apply(r, HandleUploadDocument(St, req[r], in))

DeleteDocument(r) ==
    /\ Running(r)
    /\ req[r].op = "DeleteDocument"
    /\ \E in \in FaultInputs : Apply(r, HandleDeleteDocument(St, req[r], in))

DownloadDocument(r) ==
    /\ Running(r)
    /\ req[r].op = "DownloadDocument"
    /\ \E in \in FaultInputs : Apply(r, HandleDownloadDocument(St, req[r], in))

UpdateStatus(r) ==
    /\ Running(r)
    /\ req[r].op = "UpdateDocumentStatus"
    /\ \E in \in FaultInputs : Apply(r, HandleUpdateDocumentStatus(St, req[r], in))

DeleteStatus(r) ==
    /\ Running(r)
    /\ req[r].op = "DeleteDocumentStatus"
    /\ \E in \in FaultInputs : Apply(r, HandleDeleteDocumentStatus(St, req[r], in))

\* the client has read the response; the slot is free again
Return(r) ==
    /\ req[r].pc = "done"
    /\ req' = [req EXCEPT ![r] = IdleReq]
    /\ UNCHANGED <<buckets, objects, notification, statuses, rvars, mvars, kvars>>

\* the process dies between two store calls of a request
Crash(r) ==
    /\ Running(r)
    /\ req' = [req EXCEPT ![r] = IdleReq]
    /\ UNCHANGED <<buckets, objects, notification, statuses, rvars, mvars, kvars>>

Next ==
    \E r \in Slots :
        \/ Start(r)
        \/ CreateIndex(r)
        \/ GetIndex(r)
        \/ ListIndices(r)
        \/ DeleteIndex(r)
        \/ UpdateIndex(r)
        \/ ListDocuments(r)
        \/ UploadDocument(r)
        \/ DeleteDocument(r)
        \/ DownloadDocument(r)
        \/ UpdateStatus(r)
        \/ DeleteStatus(r)
        \/ Return(r)
        \/ Crash(r)

Spec == Init /\ [][Next]_vars

(***************************************************************************)
(* The naming rule: one client that sends CreateIndex requests under every *)
(* name of AllNames.                                                       *)
(***************************************************************************)
StartCreateIndex(r) ==
    /\ req[r].pc = "idle"
    /\ \E n \in AllNames : req' = [req EXCEPT ![r] = CreateIndexReq(n, "")]
    /\ UNCHANGED <<buckets, objects, notification, statuses, rvars, mvars, kvars>>

NextNames ==
    \E r \in {1} :
        \/ StartCreateIndex(r)
        \/ CreateIndex(r)
        \/ Return(r)
        \/ Crash(r)

SpecNames == Init /\ [][NextNames]_vars

(***************************************************************************)
(* Creation only: clients send CreateIndex and GetIndex requests and no    *)
(* DeleteIndex is ever issued.                                             *)
(***************************************************************************)
StartCreateOrGet(r) ==
    /\ req[r].pc = "idle"
    /\ \E rq \in {CreateIndexReq(n, d) : n \in BucketNames, d \in DescInputs}
                 \cup {GetIndexReq(n) : n \in BucketNames} :
          req' = [req EXCEPT ![r] = rq]
    /\ UNCHANGED <<buckets, objects, notification, statuses, rvars, mvars, kvars>>

NextCreate ==
    \E r \in Slots :
        \/ StartCreateOrGet(r)
        \/ CreateIndex(r)
        \/ GetIndex(r)
        \/ Return(r)
        \/ Crash(r)

SpecCreate == Init /\ [][NextCreate]_vars

(***************************************************************************)
(* The tool registry reconciler.  On every tick of its timer it polls the  *)
(* index listing, diffs the names against the registered query tools and   *)
(* registers and unregisters tools; a guard keeps ticks from overlapping.  *)
(* The index service runs beside it: one client creates and deletes        *)
(* indices under two names.                                                *)
(***************************************************************************)
ReconcilerNames == {"k-b", "kb1"}

\* the identifier of the query tool of an index: a fixed prefix and the name
QueryTool(n) == <<"query-", n>>
ToolsOf(names) == {QueryTool(n) : n \in names}
\* the names that have a registered tool
Registered(reg) == {n \in ValidNames : QueryTool(n) \in reg}

\* the index names of a listing response
Observed(resp) == {i.name : i \in resp.items}

\* the names to register and to unregister: the two halves of the symmetric
\* difference of the observed names and the registered names
ToRegister(observed, reg) == observed \ Registered(reg)
\* a diff that never finds a tool to unregister
ToUnregister_Nothing(observed, reg) == {}
ToUnregister(observed, reg) == Registered(reg) \ observed

\* a tool invocation: the registry lookup accepts a registered tool only
InvokeTool(reg, tool) == IF tool \in reg THEN "ok" ELSE "unknown tool"

\* a timer callback that starts a cycle whether or not one is in progress
Tick_Unguarded(c) ==
    /\ cycle[c].pc = "idle"
    /\ inProgress' = TRUE
    /\ cycle' = [cycle EXCEPT ![c] = [NoCycle EXCEPT !.pc = "poll",
                                                    !.poll = ListIndicesReq]]
    /\ UNCHANGED <<svars, registry, lastCycle, invoked, mvars, kvars>>

\* the timer fires: the callback starts a cycle unless one is in progress,
\* in which case the tick is skipped
Tick(c) ==
    /\ cycle[c].pc = "idle"
    /\ IF inProgress
       THEN UNCHANGED <<cycle, inProgress>>
       ELSE /\ inProgress' = TRUE
            /\ cycle' = [cycle EXCEPT ![c] = [NoCycle EXCEPT !.pc = "poll",
                                                           !.poll = ListIndicesReq]]
    /\ UNCHANGED <<svars, registry, lastCycle, invoked, mvars, kvars>>

\* the end of a cycle: its outcome is logged and the guard is released
EndCycle(c, outcome) ==
    /\ cycle' = [cycle EXCEPT ![c] = NoCycle]
    /\ lastCycle' = outcome
    /\ inProgress' = FALSE

\* a poll that takes a listing it could not get for an empty listing
Poll_FailureAsEmpty(c) ==
    /\ cycle[c].pc = "poll"
    /\ \E in \in FaultInputs : \E timeout \in BOOLEAN :
          LET s == HandleListRAGIndices(St, cycle[c].poll, in) IN
          IF s.rq.pc # "done" /\ ~timeout
          THEN /\ cycle' = [cycle EXCEPT ![c].poll = s.rq]
               /\ UNCHANGED <<inProgress, lastCycle>>
          ELSE LET observed == IF s.rq.pc = "done" /\ s.rq.resp.code = 200 /\ ~timeout
                               THEN Observed(s.rq.resp) ELSE {} IN
               /\ cycle' = [cycle EXCEPT ![c] =
                               [pc         |-> "mutate",
                                poll       |-> IdleReq,
                                observed   |-> observed,
                                register   |-> ToRegister(observed, registry),
                                unregister |-> ToUnregister(observed, registry)]]
               /\ UNCHANGED <<inProgress, lastCycle>>
    /\ UNCHANGED <<svars, registry, invoked, mvars, kvars>>

\* one store call of the listing the cycle polls, or the timeout of the
\* poll; a listing that answers with an error and a poll that times out end
\* the cycle with the registry as it was
Poll(c) ==
    /\ cycle[c].pc = "poll"
    /\ \E in \in FaultInputs : \E timeout \in BOOLEAN :
          LET s == HandleListRAGIndices(St, cycle[c].poll, in) IN
          IF timeout
          THEN EndCycle(c, "poll failed")
          ELSE IF s.rq.pc # "done"
          THEN /\ cycle' = [cycle EXCEPT ![c].poll = s.rq]
               /\ UNCHANGED <<inProgress, lastCycle>>
          ELSE IF s.rq.resp.code = 200
          THEN LET observed == Observed(s.rq.resp) IN
               /\ cycle' = [cycle EXCEPT ![c] =
                               [pc         |-> "mutate",
                                poll       |-> IdleReq,
                                observed   |-> observed,
                                register   |-> ToRegister(observed, registry),
                                unregister |-> ToUnregister(observed, registry)]]
               /\ UNCHANGED <<inProgress, lastCycle>>
          ELSE EndCycle(c, "poll failed")
    /\ UNCHANGED <<svars, registry, invoked, mvars, kvars>>

\* the cycle registers the tool of a newly observed name
Register(c) ==
    /\ cycle[c].pc = "mutate"
    /\ cycle[c].register # {}
    /\ LET n == First(BucketOrder, cycle[c].register) IN
       /\ registry' = registry \cup {QueryTool(n)}
       /\ cycle' = [cycle EXCEPT ![c].register = @ \ {n}]
    /\ UNCHANGED <<svars, inProgress, lastCycle, invoked, mvars, kvars>>

\* the cycle unregisters the tool of a name that is no longer observed
Unregister(c) ==
    /\ cycle[c].pc = "mutate"
    /\ cycle[c].register = {}
    /\ cycle[c].unregister # {}
    /\ LET n == First(BucketOrder, cycle[c].unregister) IN
       /\ registry' = registry \ {QueryTool(n)}
       /\ cycle' = [cycle EXCEPT ![c].unregister = @ \ {n}]
    /\ UNCHANGED <<svars, inProgress, lastCycle, invoked, mvars, kvars>>

\* the cycle has applied its diff
CycleDone(c) ==
    /\ cycle[c].pc = "mutate"
    /\ cycle[c].register = {} /\ cycle[c].unregister = {}
    /\ EndCycle(c, "reconciled")
    /\ UNCHANGED <<svars, registry, invoked, mvars, kvars>>

\* an agent invokes the query tool of a name
Invoke(n) ==
    /\ invoked' = [tool |-> QueryTool(n), result |-> InvokeTool(registry, QueryTool(n))]
    /\ UNCHANGED <<svars, registry, cycle, inProgress, lastCycle, mvars, kvars>>

\* the client of the index service sends a CreateIndex or a DeleteIndex
StartIndexRequest(r) ==
    /\ req[r].pc = "idle"
    /\ \E n \in ReconcilerNames :
          \E rq \in {CreateIndexReq(n, ""), DeleteIndexReq(n)} :
             req' = [req EXCEPT ![r] = rq]
    /\ UNCHANGED <<buckets, objects, notification, statuses, rvars, mvars, kvars>>

NextReconciler ==
    \/ \E r \in {1} :
          \/ StartIndexRequest(r)
          \/ CreateIndex(r)
          \/ DeleteIndex(r)
          \/ Return(r)
    \/ \E c \in Cycles :
          \/ Tick(c)
          \/ Poll(c)
          \/ Register(c)
          \/ Unregister(c)
          \/ CycleDone(c)
    \/ \E n \in ReconcilerNames : Invoke(n)

SpecReconciler == Init /\ [][NextReconciler]_vars

\* The timer keeps firing and a cycle that has started takes its steps;
\* nothing is assumed about the clients of the index service or about the
\* outcome of a poll.
FairReconciler ==
    \A c \in Cycles :
        /\ WF_vars(Tick(c))
        /\ WF_vars(Poll(c))
        /\ WF_vars(Register(c))
        /\ WF_vars(Unregister(c))
        /\ WF_vars(CycleDone(c))

SpecReconcilerFair == Init /\ [][NextReconciler]_vars /\ FairReconciler

(***************************************************************************)
(* The A2A handler mux (a2a_handler_mux.go): a map from agent reference to *)
(* handler behind a sync.RWMutex.  Goroutines call SetAgentHandler,        *)
(* RemoveAgentHandler and ServeHTTP; taking a lock, the map access and     *)
(* releasing the lock are separate steps.                                  *)
(***************************************************************************)
\* path variables of a request
Namespaces == {"", "kagent"}
AgentNames == {"", "k8s-agent"}
\* the A2A servers SetAgentHandler can build, told apart by their agent card
Cards == {1, 2}

\* utils.ResourceRefString: namespace "/" name
ResourceRefString(namespace, name) == <<namespace, "/", name>>
\* the agent the controller registers and removes
AgentRefs == {ResourceRefString("kagent", "k8s-agent")}

\* sync.RWMutex: Lock needs no writer and no reader, RLock no writer
CanLock(l) == l.writer = 0 /\ l.readers = {}
CanRLock(l) == l.writer = 0

\* ServeHTTP up to the handler lookup: the answer of a request that is
\* refused, 0 for a request that goes on to the lookup.  session: the
\* request context carries an auth session; allowed: authorizer.Check
\* returns nil
Precheck(namespace, name, authz, session, allowed) ==
    IF namespace = "" THEN 400
    ELSE IF name = "" THEN 400
    ELSE IF authz /\ ~session THEN 401
    ELSE IF authz /\ ~allowed THEN 403
    ELSE 0

\* ServeHTTP's authorization block: what the request learns about its
\* caller.  Without an authorizer, or with a path variable missing, nothing
\* is checked
Authorization(namespace, name, authz, session, allowed) ==
    IF namespace = "" \/ name = "" \/ ~authz THEN "unchecked"
    ELSE IF ~session THEN "no session"
    ELSE IF ~allowed THEN "denied"
    ELSE "allowed"

\* ServeHTTP that looks the handler up before it authorizes the caller
Request_LookupFirst(namespace, name, session, allowed) ==
    LET code == Precheck(namespace, name, authorizer, session, allowed)
        ref  == ResourceRefString(namespace, name)
        auth == Authorization(namespace, name, authorizer, session, allowed)
    IN  IF namespace = "" \/ name = ""
        THEN [NoThread EXCEPT !.op = "ServeHTTP", !.pc = "done", !.code = code]
        ELSE IF ref \notin DOMAIN handlers
        THEN [NoThread EXCEPT !.op = "ServeHTTP", !.pc = "done", !.code = 404,
                              !.ref = ref, !.auth = auth]
        ELSE IF code # 0
        THEN [NoThread EXCEPT !.op = "ServeHTTP", !.pc = "done", !.code = code,
                              !.ref = ref, !.auth = auth]
        ELSE [NoThread EXCEPT !.op = "ServeHTTP", !.pc = "RLock", !.ref = ref,
                              !.auth = auth]

\* ServeHTTP from its entry to the handler lookup: a request without a path
\* variable is answered 400, a request that is not authorized 401 or 403,
\* any other goes on to getHandler
Request(namespace, name, session, allowed) ==
    LET code == Precheck(namespace, name, authorizer, session, allowed)
        ref  == ResourceRefString(namespace, name)
        auth == Authorization(namespace, name, authorizer, session, allowed)
    IN  IF namespace = "" \/ name = ""
        THEN [NoThread EXCEPT !.op = "ServeHTTP", !.pc = "done", !.code = code]
        ELSE IF code # 0
        THEN [NoThread EXCEPT !.op = "ServeHTTP", !.pc = "done", !.code = code,
                              !.ref = ref, !.auth = auth]
        ELSE [NoThread EXCEPT !.op = "ServeHTTP", !.pc = "RLock", !.ref = ref,
                              !.auth = auth]

\* a goroutine enters the mux
Call(t) ==
    /\ thread[t].pc = "idle"
    /\ \/ \E ref \in AgentRefs : \E card \in Cards :
             thread' = [thread EXCEPT ![t] =
                           [NoThread EXCEPT !.op = "SetAgentHandler",
                                            !.pc = "NewA2AServer",
                                            !.ref = ref, !.handler = card]]
       \/ \E ref \in AgentRefs :
             thread' = [thread EXCEPT ![t] =
                           [NoThread EXCEPT !.op = "RemoveAgentHandler",
                                            !.pc = "Lock", !.ref = ref]]
       \/ \E namespace \in Namespaces : \E name \in AgentNames :
          \E session \in BOOLEAN : \E allowed \in BOOLEAN :
             thread' = [thread EXCEPT ![t] = Request(namespace, name, session, allowed)]
    /\ UNCHANGED <<svars, rvars, kvars, handlers, lock, authorizer>>

\* SetAgentHandler that puts the handler into the map before it knows that
\* the server could be built
SetAgentHandler_StoreFirst(t) ==
    /\ thread[t].op = "SetAgentHandler"
    /\ CASE thread[t].pc = "NewA2AServer" ->
              /\ \E err \in BOOLEAN :
                    thread' = [thread EXCEPT ![t] =
                                  IF err THEN [@ EXCEPT !.pc = "done", !.code = 500]
                                  ELSE [@ EXCEPT !.pc = "Lock"]]
              /\ handlers' = [k \in (DOMAIN handlers) \cup {thread[t].ref} |->
                                 IF k = thread[t].ref THEN thread[t].handler
                                 ELSE handlers[k]]
              /\ UNCHANGED lock
         [] thread[t].pc = "Lock" ->
              /\ CanLock(lock)
              /\ lock' = [lock EXCEPT !.writer = t]
              /\ thread' = [thread EXCEPT ![t].pc = "store"]
              /\ UNCHANGED handlers
         [] thread[t].pc = "store" ->
              /\ thread' = [thread EXCEPT ![t].pc = "Unlock"]
              /\ UNCHANGED <<handlers, lock>>
         [] thread[t].pc = "Unlock" ->
              /\ lock' = [lock EXCEPT !.writer = 0]
              /\ thread' = [thread EXCEPT ![t].pc = "done"]
              /\ UNCHANGED handlers
         [] OTHER -> FALSE
    /\ UNCHANGED <<svars, rvars, kvars, authorizer>>

\* SetAgentHandler: build the server, then store its handler under the
\* write lock; a server that cannot be built returns the error (code 500)
SetAgentHandler(t) ==
    /\ thread[t].op = "SetAgentHandler"
    /\ CASE thread[t].pc = "NewA2AServer" ->
              /\ \E err \in BOOLEAN :
                    thread' = [thread EXCEPT ![t] =
                                  IF err THEN [@ EXCEPT !.pc = "done", !.code = 500]
                                  ELSE [@ EXCEPT !.pc = "Lock"]]
              /\ UNCHANGED <<handlers, lock>>
         [] thread[t].pc = "Lock" ->
              /\ CanLock(lock)
              /\ lock' = [lock EXCEPT !.writer = t]
              /\ thread' = [thread EXCEPT ![t].pc = "store"]
              /\ UNCHANGED handlers
         [] thread[t].pc = "store" ->
              /\ handlers' = [k \in (DOMAIN handlers) \cup {thread[t].ref} |->
                                 IF k = thread[t].ref THEN thread[t].handler
                                 ELSE handlers[k]]
              /\ thread' = [thread EXCEPT ![t].pc = "Unlock"]
              /\ UNCHANGED lock
         [] thread[t].pc = "Unlock" ->
              /\ lock' = [lock EXCEPT !.writer = 0]
              /\ thread' = [thread EXCEPT ![t].pc = "done"]
              /\ UNCHANGED handlers
         [] OTHER -> FALSE
    /\ UNCHANGED <<svars, rvars, kvars, authorizer>>

\* RemoveAgentHandler: delete the entry under the write lock
RemoveAgentHandler(t) ==
    /\ thread[t].op = "RemoveAgentHandler"
    /\ CASE thread[t].pc = "Lock" ->
              /\ CanLock(lock)
              /\ lock' = [lock EXCEPT !.writer = t]
              /\ thread' = [thread EXCEPT ![t].pc = "delete"]
              /\ UNCHANGED handlers
         [] thread[t].pc = "delete" ->
              /\ handlers' = [k \in (DOMAIN handlers) \ {thread[t].ref} |-> handlers[k]]
              /\ thread' = [thread EXCEPT ![t].pc = "Unlock"]
              /\ UNCHANGED lock
         [] thread[t].pc = "Unlock" ->
              /\ lock' = [lock EXCEPT !.writer = 0]
              /\ thread' = [thread EXCEPT ![t].pc = "done"]
              /\ UNCHANGED handlers
         [] OTHER -> FALSE
    /\ UNCHANGED <<svars, rvars, kvars, authorizer>>

\* getHandler that reads the map without taking the read lock
getHandler_NoLock(t) ==
    /\ thread[t].op = "ServeHTTP"
    /\ CASE thread[t].pc = "RLock" ->
              thread' = [thread EXCEPT ![t].pc = "read"]
         [] thread[t].pc = "read" ->
              thread' = [thread EXCEPT ![t].pc = "RUnlock",
                                       ![t].handler =
                                           IF thread[t].ref \in DOMAIN handlers
                                           THEN handlers[thread[t].ref] ELSE 0]
         [] thread[t].pc = "RUnlock" ->
              thread' = [thread EXCEPT ![t].pc = "dispatch"]
         [] OTHER -> FALSE
    /\ UNCHANGED <<svars, rvars, kvars, handlers, lock, authorizer>>

\* getHandler: read the entry under the read lock; handler 0 stands for
\* ok = false
getHandler(t) ==
    /\ thread[t].op = "ServeHTTP"
    /\ CASE thread[t].pc = "RLock" ->
              /\ CanRLock(lock)
              /\ lock' = [lock EXCEPT !.readers = @ \cup {t}]
              /\ thread' = [thread EXCEPT ![t].pc = "read"]
         [] thread[t].pc = "read" ->
              /\ thread' = [thread EXCEPT ![t].pc = "RUnlock",
                                          ![t].handler =
                                              IF thread[t].ref \in DOMAIN handlers
                                              THEN handlers[thread[t].ref] ELSE 0]
              /\ UNCHANGED lock
         [] thread[t].pc = "RUnlock" ->
              /\ lock' = [lock EXCEPT !.readers = @ \ {t}]
              /\ thread' = [thread EXCEPT ![t].pc = "dispatch"]
         [] OTHER -> FALSE
    /\ UNCHANGED <<svars, rvars, kvars, handlers, authorizer>>

\* ServeHTTP after the lookup: 404 without a handler, else the request is
\* handed to the handler, which answers (200) when it is done
ServeHTTP(t) ==
    /\ thread[t].op = "ServeHTTP"
    /\ CASE thread[t].pc = "dispatch" ->
              thread' = [thread EXCEPT ![t] =
                            IF thread[t].handler = 0
                            THEN [@ EXCEPT !.pc = "done", !.code = 404]
                            ELSE [@ EXCEPT !.pc = "serving"]]
         [] thread[t].pc = "serving" ->
              thread' = [thread EXCEPT ![t].pc = "done", ![t].code = 200]
         [] OTHER -> FALSE
    /\ UNCHANGED <<svars, rvars, kvars, handlers, lock, authorizer>>

\* the call has returned
ReturnMux(t) ==
    /\ thread[t].pc = "done"
    /\ thread' = [thread EXCEPT ![t] = NoThread]
    /\ UNCHANGED <<svars, rvars, kvars, handlers, lock, authorizer>>

\* the mux is built with or without an authorizer
InitMux ==
    /\ InitStores
    /\ InitReconciler
    /\ \E authz \in BOOLEAN : NewA2AHttpMux(authz)
    /\ InitRoles

NextMux ==
    \E t \in Threads :
        \/ Call(t)
        \/ SetAgentHandler(t)
        \/ RemoveAgentHandler(t)
        \/ getHandler(t)
        \/ ServeHTTP(t)
        \/ ReturnMux(t)

SpecMux == InitMux /\ [][NextMux]_vars

(***************************************************************************)
(* go/internal/httpserver/auth/authz.go: the role check of a request for   *)
(* an agent.  Strings that the code takes apart are sequences of           *)
(* characters.                                                             *)
(***************************************************************************)
\* the callers: user IDs and the roles a principal can hold
UserIDs == {"u1", "u2"}
Verbs == {"get", "create"}
ResourceTypes == {"Agent", "Session"}
\* resource names: empty, without a slash, the agent n/a, other agents, an
\* empty namespace, an empty name, a second slash
ResourceNames ==
    {<< >>, <<"a">>, <<"n", "/", "a">>, <<"n", "/", "b">>, <<"m", "/", "a">>,
     <<"/", "a">>, <<"n", "/">>, <<"n", "/", "a", "/", "b">>}

\* strings.Index: the position of the first sep in s, 0 for none
Index(s, sep) ==
    IF \E i \in DOMAIN s : s[i] = sep
    THEN CHOOSE i \in DOMAIN s : s[i] = sep /\ \A j \in 1..(i - 1) : s[j] # sep
    ELSE 0

\* strings.SplitN(s, sep, 2): s cut at the first sep, s alone without one
SplitN2(s, sep) ==
    LET i == Index(s, sep) IN
    IF i = 0 THEN <<s>>
    ELSE <<SubSeq(s, 1, i - 1), SubSeq(s, i + 1, Len(s))>>

\* KubeClient.Get of an Agent
KubeGet(kube, key, fault) ==
    IF fault \/ key \notin DOMAIN kube
    THEN [err |-> TRUE, allowedRoles |-> {}]
    ELSE [err |-> FALSE, allowedRoles |-> kube[key]]

\* KubeClient.List of the Agents
KubeList(kube, fault) ==
    IF fault THEN [err |-> TRUE, items |-> NoAgents]
    ELSE [err |-> FALSE, items |-> kube]

NoopAuthorizer_Check(userRoles, id, verb, type, name, kube, fault) == "nil"

\* RBACAuthorizer.Check that allows a request for an agent it cannot fetch
RBACAuthorizer_Check_FailOpen(userRoles, id, verb, type, name, kube, fault) ==
    IF type # "Agent" THEN "nil"
    ELSE IF name = << >> THEN "nil"
    ELSE LET parts == SplitN2(name, "/") IN
         IF Len(parts) # 2 THEN "invalid resource name format"
         ELSE LET agent == KubeGet(kube, [namespace |-> parts[1], name |-> parts[2]], fault) IN
              IF agent.err THEN "nil"
              ELSE IF agent.allowedRoles = {} THEN "nil"
              ELSE IF \E allowedRole \in agent.allowedRoles :
                         \E userRole \in userRoles : allowedRole = userRole
              THEN "nil"
              ELSE "does not have required roles"

\* RBACAuthorizer.Check: the error it returns, "nil" for none
RBACAuthorizer_Check(userRoles, id, verb, type, name, kube, fault) ==
    IF type # "Agent" THEN "nil"
    ELSE IF name = << >> THEN "nil"
    ELSE LET parts == SplitN2(name, "/") IN
         IF Len(parts) # 2 THEN "invalid resource name format"
         ELSE LET agent == KubeGet(kube, [namespace |-> parts[1], name |-> parts[2]], fault) IN
              IF agent.err THEN "failed to get agent"
              ELSE IF agent.allowedRoles = {} THEN "nil"
              ELSE IF \E allowedRole \in agent.allowedRoles :
                         \E userRole \in userRoles : allowedRole = userRole
              THEN "nil"
              ELSE "does not have required roles"

\* the calls of Check the model makes
CheckInputs ==
    [authorizer : {"Noop", "RBAC"}, id : UserIDs, roles : SUBSET RoleNames,
     verb : Verbs, type : ResourceTypes, name : ResourceNames,
     fault : BOOLEAN, result : {"pending"}]
\* the clusters it runs against: no agent, or the agent n/a with any list
\* of allowed roles
AgentConfigs ==
    {NoAgents} \cup {[k \in AgentKeys |-> rs] : rs \in SUBSET RoleNames}

NoopCheck ==
    /\ check.authorizer = "Noop" /\ check.result = "pending"
    /\ check' = [check EXCEPT !.result =
                    NoopAuthorizer_Check(check.roles, check.id, check.verb, check.type,
                                         check.name, agents, check.fault)]
    /\ UNCHANGED <<svars, rvars, mvars, roles, agents, rolereq>>

RBACCheck ==
    /\ check.authorizer = "RBAC" /\ check.result = "pending"
    /\ check' = [check EXCEPT !.result =
                    RBACAuthorizer_Check(check.roles, check.id, check.verb, check.type,
                                         check.name, agents, check.fault)]
    /\ UNCHANGED <<svars, rvars, mvars, roles, agents, rolereq>>

InitAuthz ==
    /\ InitStores
    /\ InitReconciler
    /\ NewA2AHttpMux(TRUE)
    /\ roles = NoRoles
    /\ rolereq = [r \in RoleSlots |-> IdleRoleReq]
    /\ agents \in AgentConfigs
    /\ check \in CheckInputs

NextAuthz == NoopCheck \/ RBACCheck

SpecAuthz == InitAuthz /\ [][NextAuthz]_vars

(***************************************************************************)
(* go/internal/httpserver/handlers/roles.go: the handlers of the role      *)
(* table.  Every call of the database and of the Kubernetes client is one  *)
(* atomic step and may fail; requests interleave between calls, and Agent  *)
(* resources change under the handlers.                                    *)
(***************************************************************************)
\* the role table and the cluster as one record
Kst == [roles |-> roles, agents |-> agents]

\* DatabaseService.GetRole: the row of the name, an error without one
GetRole(st, name, fault) ==
    IF fault \/ name \notin DOMAIN st.roles
    THEN [err |-> TRUE, role |-> NilRole]
    ELSE [err |-> FALSE, role |-> [name |-> name, description |-> st.roles[name]]]

\* DatabaseService.StoreRole: writes the row of the role's name, new or not
StoreRole(st, role, fault) ==
    IF fault THEN [err |-> TRUE, st |-> st]
    ELSE [err |-> FALSE,
          st |-> [st EXCEPT !.roles =
                     [n \in (DOMAIN @) \cup {role.name} |->
                         IF n = role.name THEN role.description ELSE @[n]]]]

\* DatabaseService.DeleteRole: removes the row of the name
DeleteRole(st, name, fault) ==
    IF fault THEN [err |-> TRUE, st |-> st]
    ELSE [err |-> FALSE,
          st |-> [st EXCEPT !.roles = [n \in (DOMAIN @) \ {name} |-> @[n]]]]

\* DatabaseService.ListRoles
ListRoles(st, fault) ==
    IF fault THEN [err |-> TRUE, names |-> {}]
    ELSE [err |-> FALSE, names |-> DOMAIN st.roles]

\* getAgentsUsingRole: the agents that list the role
getAgentsUsingRole(st, roleName, fault) ==
    LET agentList == KubeList(st.agents, fault) IN
    IF agentList.err THEN [err |-> TRUE, agents |-> {}]
    ELSE [err |-> FALSE,
          agents |-> {k \in DOMAIN agentList.items :
                         \E allowedRole \in agentList.items[k] : allowedRole = roleName}]

\* the request answers
RespondRole(st, rq, code) == [st |-> st, rq |-> [rq EXCEPT !.pc = "done", !.code = code]]
GotoRole(st, rq, pc) == [st |-> st, rq |-> [rq EXCEPT !.pc = pc]]

HandleListRoles(st, rq, in) ==
    CASE rq.pc = "ListRoles" ->
           IF ListRoles(st, in.fault).err THEN RespondRole(st, rq, 500)
           ELSE RespondRole(st, rq, 200)

HandleGetRole(st, rq, in) ==
    CASE rq.pc = "GetRole" ->
           LET g == GetRole(st, rq.name, in.fault) IN
           IF g.err THEN RespondRole(st, rq, 404)
           ELSE RespondRole(st, [rq EXCEPT !.existing = g.role], 200)

HandleCreateRole(st, rq, in) ==
    CASE rq.pc = "GetRole" ->
           IF rq.body = InvalidBody THEN RespondRole(st, rq, 400)
           ELSE IF rq.name = "" THEN RespondRole(st, rq, 400)
           ELSE \* the error of the lookup is dropped
                LET existing == GetRole(st, rq.name, in.fault).role IN
                IF existing # NilRole THEN RespondRole(st, rq, 409)
                ELSE GotoRole(st, rq, "StoreRole")
      [] rq.pc = "StoreRole" ->
           LET role == [name |-> rq.name, description |-> rq.body]
               s    == StoreRole(st, role, in.fault)
           IN  IF s.err THEN RespondRole(st, rq, 500)
               ELSE RespondRole(s.st, [rq EXCEPT !.existing = role], 201)

HandleUpdateRole(st, rq, in) ==
    CASE rq.pc = "GetRole" ->
           LET g == GetRole(st, rq.name, in.fault) IN
           IF g.err THEN RespondRole(st, rq, 404)
           ELSE IF rq.body = InvalidBody THEN RespondRole(st, rq, 400)
           ELSE GotoRole(st, [rq EXCEPT !.existing =
                                 [g.role EXCEPT !.description = rq.body]], "StoreRole")
      [] rq.pc = "StoreRole" ->
           LET s == StoreRole(st, rq.existing, in.fault) IN
           IF s.err THEN RespondRole(st, rq, 500)
           ELSE RespondRole(s.st, rq, 200)

HandleDeleteRole(st, rq, in) ==
    CASE rq.pc = "GetRole" ->
           IF GetRole(st, rq.name, in.fault).err THEN RespondRole(st, rq, 404)
           ELSE GotoRole(st, rq, "getAgentsUsingRole")
      [] rq.pc = "getAgentsUsingRole" ->
           LET agentsUsingRole == getAgentsUsingRole(st, rq.name, in.fault) IN
           IF agentsUsingRole.err THEN RespondRole(st, rq, 500)
           ELSE IF agentsUsingRole.agents # {} THEN RespondRole(st, rq, 409)
           ELSE GotoRole(st, rq, "DeleteRole")
      [] rq.pc = "DeleteRole" ->
           LET d == DeleteRole(st, rq.name, in.fault) IN
           IF d.err THEN RespondRole(st, rq, 500)
           ELSE RespondRole(d.st, rq, 200)

NewRoleReq(op, name, body) ==
    [IdleRoleReq EXCEPT !.op = op, !.name = name, !.body = body,
                        !.pc = IF op = "ListRoles" THEN "ListRoles" ELSE "GetRole"]

\* the requests a client sends
RoleRequests ==
    {NewRoleReq("ListRoles", "", "")}
    \cup {NewRoleReq("GetRole", n, "") : n \in RolePathNames}
    \cup {NewRoleReq("CreateRole", n, b) : n \in RoleNameInputs, b \in RoleBodies}
    \cup {NewRoleReq("UpdateRole", n, b) : n \in RolePathNames, b \in RoleBodies}
    \cup {NewRoleReq("DeleteRole", n, "") : n \in RolePathNames}

\* one call of the handler of the request
StepRole(st, rq, in) ==
    CASE rq.op = "ListRoles"  -> HandleListRoles(st, rq, in)
      [] rq.op = "GetRole"    -> HandleGetRole(st, rq, in)
      [] rq.op = "CreateRole" -> HandleCreateRole(st, rq, in)
      [] rq.op = "UpdateRole" -> HandleUpdateRole(st, rq, in)
      [] rq.op = "DeleteRole" -> HandleDeleteRole(st, rq, in)

RunningRole(r) == rolereq[r].pc \notin {"idle", "done"}

ApplyRole(r, s) ==
    /\ roles' = s.st.roles
    /\ rolereq' = [rolereq EXCEPT ![r] = s.rq]
    /\ UNCHANGED <<svars, rvars, mvars, agents, check>>

StartRole(r) ==
    /\ rolereq[r].pc = "idle"
    /\ \E rq \in RoleRequests : rolereq' = [rolereq EXCEPT ![r] = rq]
    /\ UNCHANGED <<svars, rvars, mvars, roles, agents, check>>

ListRolesStep(r) ==
    /\ RunningRole(r) /\ rolereq[r].op = "ListRoles"
    /\ \E in \in FaultInputs : ApplyRole(r, HandleListRoles(Kst, rolereq[r], in))

GetRoleStep(r) ==
    /\ RunningRole(r) /\ rolereq[r].op = "GetRole"
    /\ \E in \in FaultInputs : ApplyRole(r, HandleGetRole(Kst, rolereq[r], in))

CreateRoleStep(r) ==
    /\ RunningRole(r) /\ rolereq[r].op = "CreateRole"
    /\ \E in \in FaultInputs : ApplyRole(r, HandleCreateRole(Kst, rolereq[r], in))

UpdateRoleStep(r) ==
    /\ RunningRole(r) /\ rolereq[r].op = "UpdateRole"
    /\ \E in \in FaultInputs : ApplyRole(r, HandleUpdateRole(Kst, rolereq[r], in))

DeleteRoleStep(r) ==
    /\ RunningRole(r) /\ rolereq[r].op = "DeleteRole"
    /\ \E in \in FaultInputs : ApplyRole(r, HandleDeleteRole(Kst, rolereq[r], in))

ReturnRole(r) ==
    /\ rolereq[r].pc = "done"
    /\ rolereq' = [rolereq EXCEPT ![r] = IdleRoleReq]
    /\ UNCHANGED <<svars, rvars, mvars, roles, agents, check>>

\* an Agent resource is applied to the cluster with a list of allowed roles
ApplyAgent ==
    /\ \E k \in AgentKeys : \E rs \in SUBSET RoleNames :
          agents' = [a \in (DOMAIN agents) \cup {k} |-> IF a = k THEN rs ELSE agents[a]]
    /\ UNCHANGED <<svars, rvars, mvars, roles, rolereq, check>>

\* an Agent resource is deleted from the cluster
DeleteAgent ==
    /\ \E k \in DOMAIN agents :
          agents' = [a \in (DOMAIN agents) \ {k} |-> agents[a]]
    /\ UNCHANGED <<svars, rvars, mvars, roles, rolereq, check>>

NextRoles ==
    \/ \E r \in RoleSlots :
          \/ StartRole(r)
          \/ ListRolesStep(r)
          \/ GetRoleStep(r)
          \/ CreateRoleStep(r)
          \/ UpdateRoleStep(r)
          \/ DeleteRoleStep(r)
          \/ ReturnRole(r)
    \/ ApplyAgent
    \/ DeleteAgent

SpecRoles == Init /\ [][NextRoles]_vars

(***************************************************************************)
(* Properties.                                                             *)
(***************************************************************************)
\* the bucket holds a metadata object that parses and names the bucket
ValidIndex(st, b) ==
    LET m == getIndexMetadata(st, b, FALSE) IN
    b \in st.buckets /\ ~m.err /\ m.index.name = b

\* slot r takes a step that ends its request with a response
Completes(r) == Running(r) /\ req'[r].pc = "done"

MetadataFailed == "Failed to create index metadata"

\* C1 (as claimed): whenever a CreateIndex request returns the error of a
\* failed metadata write, the bucket of that name does not exist.
C1_Original ==
    [][\A r \in Slots :
          (req[r].op = "CreateIndex" /\ Completes(r)
              /\ req'[r].resp.msg = MetadataFailed)
          => req[r].name \notin buckets']_vars

\* C1 (amended): a CreateIndex request whose metadata write failed and whose
\* compensating DeleteBucket returns without error answers with the error of
\* the metadata write and leaves no bucket of that name: a bucket-existence
\* check on the store it leaves returns false.
C1_RollbackRemovesBucket ==
    \A r \in Slots :
        (req[r].op = "CreateIndex" /\ InDeleteBucket(req[r])
            /\ req[r].fail = MetadataFailed)
        => \A in \in FaultInputs :
              LET d == DeleteBucket(St, req[r], in.fault)
                  s == Step(St, req[r], in)
              IN  d.ret = "ok"
                  => /\ s.rq.pc = "done"
                     /\ s.rq.resp.code = 500
                     /\ s.rq.resp.msg = MetadataFailed
                     /\ ~BucketExists(s.st, req[r].name, FALSE).exists
                     /\ Run(s.st, GetIndexReq(req[r].name)).rq.resp.code = 404

\* C1 witness: a creation has answered with the metadata error and its
\* rollback has removed the bucket
C1_Witness ==
    \E r \in Slots :
        /\ req[r].op = "CreateIndex" /\ req[r].pc = "done"
        /\ req[r].resp.msg = MetadataFailed
        /\ req[r].name \notin buckets

\* C2: when a CreateIndex(name, description) request returns success, a
\* GetIndex(name) run right after it, with nothing in between, returns an
\* index with that name and that description.
C2_CreateThenGet ==
    [][\A r \in Slots :
          (req[r].op = "CreateIndex" /\ Completes(r) /\ req'[r].resp.code = 201)
          => LET g == Run(St', GetIndexReq(req[r].name)) IN
             /\ g.rq.resp.code = 200
             /\ g.rq.resp.index.name = req[r].name
             /\ g.rq.resp.index.description = req[r].desc
             /\ req'[r].resp.index.name = req[r].name
             /\ req'[r].resp.index.description = req[r].desc]_vars

\* C2 witness: a creation with an empty description has succeeded and
\* GetIndex returns the index
C2_Witness ==
    \E r \in Slots :
        /\ req[r].op = "CreateIndex" /\ req[r].pc = "done"
        /\ req[r].resp.code = 201 /\ req[r].desc = ""
        /\ Run(St, GetIndexReq(req[r].name)).rq.resp.index =
               RAGIndex(req[r].name, "", req[r].resp.index.created_at)

\* C3: a CreateIndex request that has passed the existence check is never
\* answered with Conflict by the bucket-creation step, and when the bucket
\* exists by then (another creation made it) CreateBucket returns success and
\* the request goes on to arm the notification.
C3_BothPassExistenceCheck ==
    \A r \in Slots :
        (req[r].op = "CreateIndex" /\ InCreateBucket(req[r]))
        => /\ \A in \in FaultInputs : Step(St, req[r], in).rq.resp.code # 409
           /\ (req[r].pc = "CreateBucket.BucketExists" /\ req[r].name \in buckets)
              => Step(St, req[r], NoFault).rq.pc = "SetBucketNotification"

\* C3 witness: two creations of the same name have both passed the existence
\* check and both come out of the bucket-creation step with success
C3_Witness ==
    \E r1, r2 \in Slots :
        /\ r1 # r2
        /\ req[r1].op = "CreateIndex" /\ req[r2].op = "CreateIndex"
        /\ req[r1].name = req[r2].name
        /\ req[r1].pc = "SetBucketNotification"
        /\ req[r2].pc = "SetBucketNotification"

\* C4: every bucket either holds no metadata object (it is not a valid
\* index) or holds a metadata object that parses and whose name field is the
\* bucket name; and nothing else is inconsistent but status rows, which may
\* outlive their document or index: objects and notification configurations
\* exist only in buckets that exist, and every valid index has its
\* notification hook armed.
C4_BucketStates ==
    /\ \A b \in buckets :
          \/ metadataFile \notin DOMAIN objects[b]
          \/ /\ ~json_Unmarshal(objects[b][metadataFile]).err
             /\ json_Unmarshal(objects[b][metadataFile]).index.name = b
    /\ \A b \in BucketNames \ buckets :
          DOMAIN objects[b] = {} /\ b \notin notification
    /\ \A b \in buckets :
          (/\ metadataFile \in DOMAIN objects[b]
           /\ ~json_Unmarshal(objects[b][metadataFile]).err)
          => b \in notification

\* the stores after DeleteIndex(n) and then CreateIndex(n, d), run one after
\* the other with every store call succeeding
Recover(st, n, d) == Run(Run(st, DeleteIndexReq(n)).st, CreateIndexReq(n, d)).st

\* C5: in every state the stores can be left in, whatever requests failed or
\* were abandoned on the way, DeleteIndex(name) followed by CreateIndex(name)
\* with no further fault makes name a valid index that GetIndex returns.
C5_Recoverable ==
    (\A r \in Slots : req[r].pc = "idle")
    => \A n \in BucketNames : \A d \in DescInputs :
          LET st == Recover(St, n, d)
              g  == Run(st, GetIndexReq(n)).rq.resp
          IN  /\ ValidIndex(st, n)
              /\ g.code = 200
              /\ g.index.name = n /\ g.index.description = d

\* C5 witness: no request is in flight and a bucket without metadata has been
\* left behind
C5_Witness ==
    /\ \A r \in Slots : req[r].pc = "idle"
    /\ \E n \in buckets :
          /\ metadataFile \notin DOMAIN objects[n]
          /\ ValidIndex(Recover(St, n, "handbook"), n)

\* C6: on a name that is not a valid index (no bucket, or a bucket without
\* a metadata object that parses) UploadDocument, ListDocuments and
\* DeleteIndex, sent while no other request is in flight, answer NotFound and
\* change nothing.
C6_NotFoundUnlessValidIndex ==
    \A n \in BucketNames :
        ((\A r \in Slots : req[r].pc = "idle") /\ ~ValidIndex(St, n))
        => \A rq \in {UploadDocumentReq(n, "D.MD"), ListDocumentsReq(n),
                      DeleteIndexReq(n)} :
              LET s == Run(St, rq) IN s.rq.resp.code = 404 /\ s.st = St

\* slot r takes a step of its request
Steps(r) == Running(r) /\ req'[r] # req[r]

\* C7: a DeleteIndex on a name that is not a valid index (no bucket, or a
\* bucket without metadata that parses), sent while no other request is in
\* flight, answers NotFound and changes nothing; a DeleteIndex answers
\* success only after its DeleteBucket has removed the bucket; once the
\* bucket is removed GetIndex and ListDocuments answer NotFound, and the
\* bucket comes back only through the bucket-creation step of a CreateIndex
\* of that name.
C7_DeleteIndex ==
    [][/\ \A r \in Slots :
            (/\ req[r].op = "DeleteIndex" /\ req[r].pc = "BucketExists"
             /\ \A q \in Slots \ {r} : req[q].pc = "idle"
             /\ ~ValidIndex(St, req[r].name))
            => LET s == Run(St, req[r]) IN
               s.rq.resp.code = 404 /\ s.st = St
       /\ \A r \in Slots :
            (req[r].op = "DeleteIndex" /\ Completes(r) /\ req'[r].resp.code = 200)
            => req[r].pc = "DeleteDocumentStatusesForIndex"
       /\ \A r \in Slots :
            (req[r].op = "DeleteIndex" /\ Steps(r)
                /\ req'[r].pc = "DeleteDocumentStatusesForIndex")
            => req[r].name \notin buckets'
       /\ \A n \in BucketNames \ buckets :
            /\ Run(St, GetIndexReq(n)).rq.resp.code = 404
            /\ Run(St, ListDocumentsReq(n)).rq.resp.code = 404
       /\ \A n \in BucketNames :
            (n \notin buckets /\ n \in buckets')
            => \E r \in Slots :
                  /\ req[r].op = "CreateIndex" /\ req[r].name = n
                  /\ req[r].pc = "CreateBucket.MakeBucket" /\ Steps(r)]_vars

\* the buckets whose metadata object exists and parses
WithMetadata(st) ==
    {b \in st.buckets : /\ metadataFile \in DOMAIN st.objects[b]
                        /\ ~json_Unmarshal(st.objects[b][metadataFile]).err}

\* C8: a ListIndices that runs alone lists exactly the buckets whose metadata
\* object exists and parses; and no step of any ListIndices request adds an
\* index for a bucket whose metadata is, at that step, absent or unparsable.
C8_ListingIffMetadata ==
    [][/\ (\A r \in Slots : req[r].pc = "idle")
          => LET l == Run(St, ListIndicesReq).rq.resp IN
             /\ l.code = 200
             /\ {i.name : i \in l.items} = WithMetadata(St)
             /\ Cardinality(l.items) = Cardinality(WithMetadata(St))
       /\ \A r \in Slots :
            (req[r].op = "ListIndices" /\ req[r].pc = "getIndexMetadata" /\ Steps(r)
                /\ req'[r].pc # "idle")
            => LET b   == First(BucketOrder, req[r].todo)
                   out == IF req'[r].pc = "done" THEN req'[r].resp.items
                          ELSE req'[r].acc
               IN  /\ req[r].acc \subseteq out
                   /\ \A i \in out \ req[r].acc :
                         b \in WithMetadata(St) /\ i.name = b]_vars

\* C8 witness: a listing has answered with no index while a bucket without
\* metadata exists
C8_Witness ==
    \E r \in Slots :
        /\ req[r].op = "ListIndices" /\ req[r].pc = "done"
        /\ req[r].resp.code = 200 /\ req[r].resp.items = {}
        /\ \E b \in buckets : b \notin WithMetadata(St)

\* the metadata object of bucket b, as a set: empty when there is none
MetadataOf(b) ==
    IF metadataFile \in DOMAIN objects[b] THEN {objects[b][metadataFile]} ELSE {}

\* C9: the metadata object of a bucket changes only in a step of a
\* CreateIndex, UpdateIndex or DeleteIndex request; on an existing bucket
\* UploadDocument, DeleteDocument and DownloadDocument answer BadRequest for
\* the reserved name and change nothing; no ListDocuments response lists it.
C9_ReservedName ==
    [][/\ \A b \in BucketNames :
            MetadataOf(b)' # MetadataOf(b)
            => \E r \in Slots :
                  Steps(r) /\ req[r].op \in {"CreateIndex", "UpdateIndex", "DeleteIndex"}
       /\ \A r \in Slots :
            (/\ req[r].op \in {"UploadDocument", "DeleteDocument", "DownloadDocument"}
             /\ req[r].file = metadataFile
             /\ req[r].pc = "BucketExists" /\ req[r].name \in buckets)
            => LET s == Step(St, req[r], NoFault) IN
               s.rq.pc = "done" /\ s.rq.resp.code = 400 /\ s.st = St
       /\ \A r \in Slots :
            (req[r].op \in {"ListDocuments", "DownloadDocument"} /\ Completes(r))
            => \A i \in req'[r].resp.items : i.name # metadataFile]_vars

\* C9 witness: an upload under the reserved name has been answered with
\* BadRequest while the index and its metadata exist
C9_Witness ==
    \E r \in Slots :
        /\ req[r].op = "UploadDocument" /\ req[r].file = metadataFile
        /\ req[r].pc = "done" /\ req[r].resp.code = 400
        /\ ValidIndex(St, req[r].name)

\* file names an upload must refuse: the reserved name, an extension outside
\* the allowlist, no extension
RejectedFiles == {metadataFile, "x.exe", "noext"}

\* C10: an UploadDocument request whose file name is the reserved name or has
\* an extension outside the allowlist changes neither the objects nor the
\* status rows in any of its steps and ends at its first step with an error:
\* NotFound without a bucket, BadRequest on every bucket, with or without
\* metadata.
C10_UploadRejects ==
    [][/\ \A r \in Slots :
            (req[r].op = "UploadDocument" /\ req[r].file \in RejectedFiles /\ Steps(r))
            => /\ objects' = objects /\ statuses' = statuses /\ buckets' = buckets
               /\ req'[r].pc \in {"done", "idle"}
               /\ req'[r].pc = "done" => req'[r].resp.code \in {400, 404, 500}
       /\ (\A r \in Slots : req[r].pc = "idle")
          => \A n \in BucketNames : \A f \in RejectedFiles :
                LET s == Step(St, UploadDocumentReq(n, f), NoFault) IN
                /\ s.st = St /\ s.rq.pc = "done"
                /\ s.rq.resp.code = IF n \in buckets THEN 400 ELSE 404]_vars

\* C10 witness: an upload of an executable has been refused on a bucket that
\* holds no metadata
C10_Witness ==
    \E r \in Slots :
        /\ req[r].op = "UploadDocument" /\ req[r].file = "x.exe"
        /\ req[r].pc = "done" /\ req[r].resp.code = 400
        /\ req[r].name \in buckets /\ ~ValidIndex(St, req[r].name)
        /\ DOMAIN objects[req[r].name] = {}

\* the naming rule as the interface states it: 1 to 63 characters, each of
\* them a lowercase letter, a digit or a hyphen, the first and the last not a
\* hyphen
NameRule(name) ==
    LET cs      == Chars(name)
        alnum   == Range(LowerLetters) \cup Digits
    IN  /\ Len(cs) \in 1..63
        /\ \A i \in DOMAIN cs : cs[i] \in alnum \cup {"-"}
        /\ cs[1] \in alnum /\ cs[Len(cs)] \in alnum

\* C11: a CreateIndex request whose name breaks the naming rule is answered
\* with BadRequest at its first step, whether or not the object store works,
\* and changes nothing; a request whose name obeys the rule is never answered
\* with BadRequest: its first step is the bucket-existence check, which ends
\* it only with Conflict or InternalServerError.
C11_NameRule ==
    \A r \in Slots :
        (req[r].op = "CreateIndex" /\ req[r].pc = "BucketExists")
        => \A in \in FaultInputs :
              LET s == Step(St, req[r], in) IN
              IF NameRule(req[r].name)
              THEN /\ s.rq.resp.code # 400
                   /\ s.rq.pc = "done" => s.rq.resp.code \in {409, 500}
                   /\ (~in.fault /\ CheckValidBucketName(req[r].name)
                           /\ req[r].name \notin buckets)
                      => s.rq.pc = "CreateBucket.BucketExists"
              ELSE s.rq.pc = "done" /\ s.rq.resp.code = 400 /\ s.st = St

\* C11 witness: a name of 64 characters has been refused with BadRequest
\* while the index named by 63 characters exists
C11_Witness ==
    \E r \in Slots :
        /\ req[r].op = "CreateIndex" /\ req[r].name = Name64
        /\ req[r].pc = "done" /\ req[r].resp.code = 400
        /\ ValidIndex(St, Name63)

NotificationFailed == "Failed to configure index notifications"

\* C12: when a CreateIndex request fails to arm the notification or to write
\* the metadata, it changes nothing in that step and goes on to the
\* compensating DeleteBucket, remembering the error of the failed step; from
\* there it takes no step but those of DeleteBucket and answers
\* InternalServerError with the remembered error, the same response whether
\* DeleteBucket returns success or an error.
C12_Compensation ==
    \A r \in Slots :
        req[r].op = "CreateIndex"
        => /\ req[r].pc = "SetBucketNotification"
              => \A in \in FaultInputs :
                    LET s == Step(St, req[r], in) IN
                    SetBucketNotification(St, req[r].name, in.fault).err
                    => /\ s.rq.pc = "DeleteBucket.ListObjects"
                       /\ s.rq.fail = NotificationFailed /\ s.st = St
           /\ req[r].pc = "putIndexMetadata"
              => \A in \in StepInputs :
                    LET s == Step(St, req[r], in) IN
                    PutObject(St, req[r].name, metadataFile, Blob, in.fault).err
                    => /\ s.rq.pc = "DeleteBucket.ListObjects"
                       /\ s.rq.fail = MetadataFailed /\ s.st = St
           /\ InDeleteBucket(req[r])
              => /\ req[r].fail \in {NotificationFailed, MetadataFailed}
                 /\ \A in \in FaultInputs :
                       LET s == Step(St, req[r], in)
                           d == DeleteBucket(St, req[r], in.fault)
                       IN  IF d.ret \in {"ok", "err"}
                           THEN /\ s.rq.pc = "done"
                                /\ s.rq.resp = [NoResp EXCEPT !.code = 500,
                                                              !.msg = req[r].fail]
                           ELSE /\ InDeleteBucket(s.rq)
                                /\ s.rq.fail = req[r].fail
                                /\ s.st.notification = notification

\* C12 witness: a creation has answered with the error of the notification
\* step and its compensating deletion has failed: the bucket is still there
C12_Witness ==
    \E r \in Slots :
        /\ req[r].op = "CreateIndex" /\ req[r].pc = "done"
        /\ req[r].resp.code = 500 /\ req[r].resp.msg = NotificationFailed
        /\ req[r].name \in buckets
        /\ \A q \in Slots \ {r} : req[q].pc = "idle"

\* C13: the existence check of a CreateIndex request on a name whose bucket
\* exists, with or without metadata, ends the request with Conflict (with
\* InternalServerError when the check itself fails) and changes no bucket,
\* object, notification configuration or status row; a request answered with
\* Conflict has taken no other step than that check.
C13_Conflict ==
    [][\A r \in Slots :
          req[r].op = "CreateIndex"
          => /\ (req[r].pc = "BucketExists" /\ req[r].name \in buckets)
                => /\ LET s == Step(St, req[r], NoFault) IN
                       /\ s.rq.pc = "done" /\ s.rq.resp.code = 409 /\ s.st = St
                   /\ Steps(r)
                      => /\ UNCHANGED <<buckets, objects, notification, statuses>>
                         /\ req'[r].pc \in {"done", "idle"}
                         /\ req'[r].pc = "done" => req'[r].resp.code \in {409, 500}
             /\ (Completes(r) /\ req'[r].resp.code = 409)
                => /\ req[r].pc = "BucketExists" /\ req[r].name \in buckets
                   /\ UNCHANGED <<buckets, objects, notification, statuses>>]_vars

\* C13 witness: a creation has been answered with Conflict on a bucket that
\* holds a document and a status row but no metadata
C13_Witness ==
    \E r \in Slots :
        /\ req[r].op = "CreateIndex" /\ req[r].pc = "done"
        /\ req[r].resp.code = 409
        /\ req[r].name \in buckets /\ ~ValidIndex(St, req[r].name)
        /\ "D.MD" \in DOMAIN objects[req[r].name]
        /\ <<req[r].name, "D.MD">> \in DOMAIN statuses

\* the key of a status row
Row(rq) == <<rq.name, rq.file>>

\* C14 (as claimed), on a valid index with no other request in flight: when
\* an UploadDocument request returns success the status of its document is
\* pending; when an UpdateDocumentStatus request returns
\* success a ListDocuments run right after it reports the stored document
\* with the new status; when a DeleteDocument request returns success neither
\* the status row nor the blob exists.
C14_Original ==
    [][\A r \in Slots :
          (ValidIndex(St, req[r].name) /\ \A q \in Slots \ {r} : req[q].pc = "idle")
          =>
          /\ (req[r].op = "UploadDocument" /\ Completes(r) /\ req'[r].resp.code = 201)
             => /\ Row(req[r]) \in DOMAIN statuses'
                /\ statuses'[Row(req[r])] = "pending"
          /\ (req[r].op = "UpdateDocumentStatus" /\ Completes(r)
                 /\ req'[r].resp.code = 200 /\ req[r].name \in buckets'
                 /\ req[r].file \in DOMAIN objects'[req[r].name])
             => [name |-> req[r].file, status |-> req[r].status]
                   \in Run(St', ListDocumentsReq(req[r].name)).rq.resp.items
          /\ (req[r].op = "DeleteDocument" /\ Completes(r) /\ req'[r].resp.code = 200)
             => /\ Row(req[r]) \notin DOMAIN statuses'
                /\ req[r].file \notin DOMAIN objects'[req[r].name]]_vars

\* the stores after the lifecycle of document f in bucket x, run request by
\* request with every store call succeeding
AfterUpload(st, x, f) == Run(st, UploadDocumentReq(x, f)).st
AfterUpdate(st, x, f) ==
    Run(AfterUpload(st, x, f), UpdateDocumentStatusReq(x, f, "completed")).st
AfterDelete(st, x, f) == Run(AfterUpdate(st, x, f), DeleteDocumentReq(x, f)).st

\* C14 (amended): an upload returns success whether or not its status insert
\* succeeds, and when the insert succeeds the status of the document is
\* pending; when an UpdateDocumentStatus request returns success the row has
\* the new status and a ListDocuments run right after it reports the stored
\* document with it; a DeleteDocument request removes the blob in its
\* DeleteFile step and returns success whether or not its status deletion
\* succeeds, and when the deletion succeeds the row is gone.  Run one after
\* the other with healthy stores on a bucket without a row for the document,
\* upload, update and delete give pending, completed, and neither blob nor row.
C14_Lifecycle ==
    [][/\ \A r \in Slots :
            /\ (req[r].op = "UploadDocument" /\ req[r].pc = "StoreDocumentStatus")
               => \A in \in FaultInputs :
                     LET s   == Step(St, req[r], in)
                         ins == StoreDocumentStatus(St, req[r].name, req[r].file,
                                                    "pending", in.fault)
                     IN  /\ s.rq.pc = "done" /\ s.rq.resp.code = 201
                         /\ ~ins.err => /\ Row(req[r]) \in DOMAIN s.st.statuses
                                        /\ s.st.statuses[Row(req[r])] = "pending"
            /\ (req[r].op = "UpdateDocumentStatus" /\ Completes(r)
                   /\ req'[r].resp.code = 200)
               => /\ Row(req[r]) \in DOMAIN statuses'
                  /\ statuses'[Row(req[r])] = req[r].status
                  /\ (req[r].name \in buckets'
                         /\ req[r].file \in DOMAIN objects'[req[r].name])
                     => [name |-> req[r].file, status |-> req[r].status]
                           \in Run(St', ListDocumentsReq(req[r].name)).rq.resp.items
            /\ (req[r].op = "DeleteDocument" /\ req[r].pc = "DeleteFile")
               => \A in \in FaultInputs :
                     LET s == Step(St, req[r], in) IN
                     s.rq.pc = "DeleteDocumentStatus"
                     => req[r].file \notin DOMAIN s.st.objects[req[r].name]
            /\ (req[r].op = "DeleteDocument" /\ req[r].pc = "DeleteDocumentStatus")
               => \A in \in FaultInputs :
                     LET s   == Step(St, req[r], in)
                         del == DeleteDocumentStatus(St, req[r].name, req[r].file,
                                                     in.fault)
                     IN  /\ s.rq.pc = "done" /\ s.rq.resp.code = 200
                         /\ ~del.err => Row(req[r]) \notin DOMAIN s.st.statuses
       /\ (\A r \in Slots : req[r].pc = "idle")
          => \A x \in buckets : \A f \in StatusFiles :
                <<x, f>> \notin DOMAIN statuses
                => /\ Run(St, UploadDocumentReq(x, f)).rq.resp.code = 201
                   /\ AfterUpload(St, x, f).statuses[<<x, f>>] = "pending"
                   /\ [name |-> f, status |-> "completed"]
                         \in Run(AfterUpdate(St, x, f), ListDocumentsReq(x)).rq.resp.items
                   /\ Run(AfterUpdate(St, x, f), DeleteDocumentReq(x, f)).rq.resp.code = 200
                   /\ f \notin DOMAIN AfterDelete(St, x, f).objects[x]
                   /\ <<x, f>> \notin DOMAIN AfterDelete(St, x, f).statuses]_vars

\* C14 witness: a listing has reported the uploaded document with the status
\* completed that the worker set
C14_Witness ==
    \E r \in Slots :
        /\ req[r].op = "ListDocuments" /\ req[r].pc = "done"
        /\ [name |-> "D.MD", status |-> "completed"] \in req[r].resp.items
        /\ "D.MD" \in DOMAIN objects[req[r].name]
        /\ statuses[<<req[r].name, "D.MD">>] = "completed"

\* the values of the status lifecycle
StatusValues == {"pending", "processing", "completed", "failed"}

\* C15: every stored status row has a status of the lifecycle.
C15_StatusValues ==
    \A k \in DOMAIN statuses : statuses[k] \in StatusValues

\* the keys a status row can have
Rows == {<<n, f>> : n \in BucketNames, f \in FileInputs}

\* C16: a row that appears in a step of an UploadDocument request has the
\* status pending; the status of an existing row changes only in a step of
\* an UpdateDocumentStatus request for that row, and an upload of the same
\* file name leaves it as it is; a row disappears only in a step of a
\* DeleteDocument or DeleteDocumentStatus request for that row or of a
\* DeleteIndex request for its index.
C16_StatusChanges ==
    [][/\ \A k \in Rows :
            /\ (k \notin DOMAIN statuses /\ k \in DOMAIN statuses')
               => \E r \in Slots :
                     /\ Steps(r) /\ Row(req[r]) = k
                     /\ \/ req[r].op = "UploadDocument" /\ statuses'[k] = "pending"
                        \/ req[r].op = "UpdateDocumentStatus"
            /\ (k \in DOMAIN statuses /\ k \in DOMAIN statuses'
                   /\ statuses'[k] # statuses[k])
               => \E r \in Slots :
                     Steps(r) /\ Row(req[r]) = k /\ req[r].op = "UpdateDocumentStatus"
            /\ (k \in DOMAIN statuses /\ k \notin DOMAIN statuses')
               => \E r \in Slots :
                     /\ Steps(r)
                     /\ \/ /\ req[r].op \in {"DeleteDocument", "DeleteDocumentStatus"}
                           /\ Row(req[r]) = k
                        \/ req[r].op = "DeleteIndex" /\ req[r].name = k[1]
       /\ DOMAIN statuses' \subseteq Rows
       /\ (\A r \in Slots : req[r].pc = "idle")
          => \A x \in buckets : \A f \in StatusFiles :
                <<x, f>> \in DOMAIN statuses
                => LET u == Run(St, UploadDocumentReq(x, f)) IN
                   /\ u.rq.resp.code = 201
                   /\ u.st.statuses = statuses]_vars

\* C16 witness: a document whose row the worker has set to completed has
\* been uploaded again, and the row is still completed
C16_Witness ==
    \E r \in Slots :
        /\ req[r].op = "UploadDocument" /\ req[r].pc = "done"
        /\ req[r].resp.code = 201
        /\ Row(req[r]) \in DOMAIN statuses
        /\ statuses[Row(req[r])] = "completed"
        /\ \A q \in Slots \ {r} : req[q].pc = "idle"

\* C17: the blob store of an upload does not touch the status rows; when it
\* fails the request ends with InternalServerError and nothing changed, when
\* it succeeds the blob is stored and the status insert is next.  A step of
\* an upload changes the status rows only as its status insert.  The status
\* insert ends the request with success whether it succeeds or fails, and
\* leaves the objects as they are; when it fails nothing changes.
C17_UploadOrder ==
    [][\A r \in Slots :
          req[r].op = "UploadDocument"
          => /\ req[r].pc = "UploadFile"
                => \A in \in FaultInputs :
                      LET s == Step(St, req[r], in)
                          p == PutObject(St, req[r].name, req[r].file, Blob, in.fault)
                      IN  /\ s.st.statuses = statuses
                          /\ IF p.err
                             THEN /\ s.rq.pc = "done" /\ s.rq.resp.code = 500
                                  /\ s.st = St
                             ELSE /\ s.rq.pc = "StoreDocumentStatus"
                                  /\ req[r].file \in DOMAIN s.st.objects[req[r].name]
             /\ req[r].pc = "StoreDocumentStatus"
                => \A in \in FaultInputs :
                      LET s   == Step(St, req[r], in)
                          ins == StoreDocumentStatus(St, req[r].name, req[r].file,
                                                     "pending", in.fault)
                      IN  /\ s.rq.pc = "done" /\ s.rq.resp.code = 201
                          /\ s.st.objects = objects /\ s.st.buckets = buckets
                          /\ ins.err => s.st = St
             /\ (Steps(r) /\ statuses' # statuses)
                => req[r].pc = "StoreDocumentStatus"
             /\ (Completes(r) /\ req'[r].resp.code = 500)
                => statuses' = statuses /\ objects' = objects]_vars

\* C17 witness: an upload has answered success with its blob stored and no
\* status row, its status insert having failed
C17_Witness ==
    \E r \in Slots :
        /\ req[r].op = "UploadDocument" /\ req[r].pc = "done"
        /\ req[r].resp.code = 201
        /\ req[r].file \in DOMAIN objects[req[r].name]
        /\ DOMAIN statuses = {}
        /\ \A q \in Slots \ {r} : req[q].pc = "idle"

\* the status rows of index n
RowsOf(st, n) == {k \in DOMAIN st.statuses : k[1] = n}

\* C18: no step of the DeleteBucket of a DeleteIndex request touches the
\* status rows; when DeleteBucket fails the request ends with
\* InternalServerError, when it succeeds the bucket is gone and the status
\* cleanup is next.  A step of a DeleteIndex request changes the status rows
\* only as its status cleanup.  The status cleanup ends the request with
\* success whether it succeeds or fails and leaves buckets and objects as
\* they are; when it fails the rows stay, when it succeeds the index has none.
C18_DeleteOrder ==
    [][\A r \in Slots :
          req[r].op = "DeleteIndex"
          => /\ InDeleteBucket(req[r])
                => \A in \in FaultInputs :
                      LET s == Step(St, req[r], in)
                          d == DeleteBucket(St, req[r], in.fault)
                      IN  /\ s.st.statuses = statuses
                          /\ d.ret = "err"
                             => /\ s.rq.pc = "done" /\ s.rq.resp.code = 500
                                /\ s.st = St
                          /\ d.ret = "ok"
                             => /\ s.rq.pc = "DeleteDocumentStatusesForIndex"
                                /\ req[r].name \notin s.st.buckets
             /\ req[r].pc = "DeleteDocumentStatusesForIndex"
                => \A in \in FaultInputs :
                      LET s == Step(St, req[r], in) IN
                      /\ s.rq.pc = "done" /\ s.rq.resp.code = 200
                      /\ s.st.buckets = buckets /\ s.st.objects = objects
                      /\ IF in.fault THEN s.st = St
                         ELSE RowsOf(s.st, req[r].name) = {}
             /\ (Steps(r) /\ statuses' # statuses)
                => req[r].pc = "DeleteDocumentStatusesForIndex"
             /\ (Completes(r) /\ req'[r].resp.code # 200)
                => statuses' = statuses]_vars

\* C18 witness: a DeleteIndex has answered success, its bucket is gone and a
\* status row of the index is left, the cleanup having failed
C18_Witness ==
    \E r \in Slots :
        /\ req[r].op = "DeleteIndex" /\ req[r].pc = "done"
        /\ req[r].resp.code = 200
        /\ req[r].name \notin buckets
        /\ statuses = (<<req[r].name, "D.MD">> :> "pending")
        /\ \A q \in Slots \ {r} : req[q].pc = "idle"

\* the entries a document listing has to have for the object keys keys when
\* the status rows of index n are those of st; known says whether the status
\* rows could be read
Documents(st, n, keys, known) ==
    {[name   |-> k,
      status |-> IF known /\ <<n, k>> \in DOMAIN st.statuses
                 THEN st.statuses[<<n, k>>] ELSE ""] : k \in keys \ {metadataFile}}

\* C19: the object listing of a ListDocuments request takes the keys of the
\* bucket; its status listing ends the request with success whether it
\* succeeds or fails, with one entry for each key but the reserved one: with
\* the status of the row of that key when the listing succeeded and the row
\* exists, without a status otherwise.  Run alone with healthy stores on an
\* existing bucket, ListDocuments returns the objects of the bucket but the
\* reserved one, each with the status of its row, if any.
C19_ListDocuments ==
    [][/\ \A r \in Slots :
            req[r].op = "ListDocuments"
            => /\ (req[r].pc = "ListObjectsInfo" /\ req[r].name \in buckets)
                  => LET s == Step(St, req[r], NoFault) IN
                     /\ s.rq.pc = "ListDocumentStatusesForIndex"
                     /\ s.rq.todo = DOMAIN objects[req[r].name]
               /\ req[r].pc = "ListDocumentStatusesForIndex"
                  => \A in \in FaultInputs :
                        LET s == Step(St, req[r], in) IN
                        /\ s.rq.pc = "done" /\ s.rq.resp.code = 200
                        /\ s.st = St
                        /\ s.rq.resp.items =
                              Documents(St, req[r].name, req[r].todo, ~in.fault)
               /\ (Completes(r) /\ req'[r].resp.code = 200)
                  => \A i \in req'[r].resp.items :
                        /\ i.name # metadataFile
                        /\ i.status # ""
                           => /\ <<req[r].name, i.name>> \in DOMAIN statuses
                              /\ i.status = statuses[<<req[r].name, i.name>>]
       /\ (\A r \in Slots : req[r].pc = "idle")
          => \A x \in buckets :
                LET l == Run(St, ListDocumentsReq(x)).rq.resp IN
                /\ l.code = 200
                /\ l.items = Documents(St, x, DOMAIN objects[x], TRUE)
                /\ {i.name : i \in l.items} = DOMAIN objects[x] \ {metadataFile}
                /\ Cardinality(l.items) = Cardinality(DOMAIN objects[x] \ {metadataFile})]_vars

\* C19 witness: a listing has answered success and reports, without a status,
\* a document whose row says completed: the status listing had failed
C19_Witness ==
    \E r \in Slots :
        /\ req[r].op = "ListDocuments" /\ req[r].pc = "done"
        /\ req[r].resp.code = 200
        /\ req[r].resp.items = {[name |-> "D.MD", status |-> ""]}
        /\ metadataFile \in DOMAIN objects[req[r].name]
        /\ statuses = (<<req[r].name, "D.MD">> :> "completed")
        /\ \A q \in Slots \ {r} : req[q].pc = "idle"

\* the stores with the object store emptied and the status rows kept
NoObjectStore(st) ==
    [st EXCEPT !.buckets = {}, !.notification = {},
               !.objects = [b \in DOMAIN st.objects |-> NoObjects]]

\* index names of a status update: one that can name a bucket, one that cannot
StatusNames == {"kb1", "Kb1"}

\* C20: in every state the stores can be left in, for every index name, file
\* name and non-empty status, an UpdateDocumentStatus request with a healthy
\* status store
\* answers success and leaves the row of (name, file name) with that status
\* and every other row, the buckets, the objects and the notification
\* configurations as they were; when the status store fails it answers
\* InternalServerError and changes nothing; the answer and the rows are the
\* same when the object store is empty.  No step of an UpdateDocumentStatus
\* request changes the object store.
C20_UpdateStatus ==
    [][/\ (\A r \in Slots : req[r].pc = "idle")
          => \A n \in StatusNames : \A f \in PathFiles : \A v \in StatusInputs \ {""} :
            \A in \in FaultInputs :
               LET rq == UpdateDocumentStatusReq(n, f, v)
                   s  == Step(St, rq, in)
                   e  == Step(NoObjectStore(St), rq, in)
               IN  /\ s.rq.pc = "done"
                   /\ s.rq.resp.code = IF in.fault THEN 500 ELSE 200
                   /\ s.st.buckets = buckets /\ s.st.objects = objects
                   /\ s.st.notification = notification
                   /\ in.fault => s.st = St
                   /\ ~in.fault
                      => /\ DOMAIN s.st.statuses = DOMAIN statuses \cup {<<n, f>>}
                         /\ s.st.statuses[<<n, f>>] = v
                         /\ \A k \in DOMAIN statuses \ {<<n, f>>} :
                               s.st.statuses[k] = statuses[k]
                   /\ e.rq = s.rq /\ e.st.statuses = s.st.statuses
       /\ \A r \in Slots :
            (req[r].op = "UpdateDocumentStatus" /\ Steps(r))
            => UNCHANGED <<buckets, objects, notification>>]_vars

\* C20 witness: a status update has answered success and its row exists
\* while there is no bucket at all
C20_Witness ==
    \E r \in Slots :
        /\ req[r].op = "UpdateDocumentStatus" /\ req[r].pc = "done"
        /\ req[r].resp.code = 200
        /\ buckets = {}
        /\ statuses = (Row(req[r]) :> "completed")

\* the objects of bucket b other than the metadata object
DocumentsOf(b) ==
    [k \in (DOMAIN objects[b]) \ {metadataFile} |-> objects[b][k]]

\* C21: a step of an UpdateIndex request never changes a bucket, a
\* notification configuration, a document or a status row; a request that
\* finds no metadata it can parse answers NotFound and writes nothing; when
\* the write of the metadata object is applied the name is a valid index
\* and the object written is the metadata stored at that moment with the
\* description replaced: same name, same creation time.
C21_UpdateChangesDescriptionOnly ==
    [][\A r \in Slots :
         (req[r].op = "UpdateIndex" /\ Steps(r) /\ req'[r].op = "UpdateIndex")
         => LET n == req[r].name IN
            /\ UNCHANGED <<buckets, notification, statuses>>
            /\ \A b \in BucketNames : DocumentsOf(b)' = DocumentsOf(b)
            /\ \A b \in BucketNames \ {n} : MetadataOf(b)' = MetadataOf(b)
            /\ (req[r].pc = "getIndexMetadata" /\ getIndexMetadata(St, n, FALSE).err)
               => /\ req'[r].pc = "done" /\ req'[r].resp.code = 404
                  /\ UNCHANGED objects
            /\ (req'[r].pc = "done" /\ req'[r].resp.code # 200) => UNCHANGED objects
            /\ (req'[r].pc = "done" /\ req'[r].resp.code = 200)
               => /\ ValidIndex(St, n)
                  /\ LET old == getIndexMetadata(St, n, FALSE).index IN
                     MetadataOf(n)' =
                        {json_Marshal([old EXCEPT !.description = req[r].desc])}]_vars

\* callback c ends a cycle whose poll succeeded
CompletesCycle(c) == cycle[c].pc = "mutate" /\ cycle'[c].pc = "idle"

\* C22: when a cycle whose poll succeeded ends, the registered tools are
\* exactly the tools of the names the poll returned, and invoking the tool
\* of any other name is rejected as unknown; during the cycle a tool is
\* registered only for a name the poll returned and unregistered only for
\* a name it did not return; an invocation is accepted exactly when its
\* tool is registered.
C22_RegistryMatchesPoll ==
    [][/\ \A c \in Cycles :
            /\ CompletesCycle(c)
               => /\ registry' = ToolsOf(cycle[c].observed)
                  /\ \A n \in ValidNames \ cycle[c].observed :
                        InvokeTool(registry', QueryTool(n)) = "unknown tool"
                  /\ \A n \in cycle[c].observed :
                        InvokeTool(registry', QueryTool(n)) = "ok"
            /\ (cycle[c].pc = "mutate" /\ registry' # registry)
               => /\ registry' \ registry \subseteq ToolsOf(cycle[c].observed)
                  /\ (registry \ registry') \cap ToolsOf(cycle[c].observed) = {}
       /\ registry' # registry => \E c \in Cycles : cycle[c].pc = "mutate"
       /\ invoked' # invoked
          => invoked'.result = (IF invoked'.tool \in registry THEN "ok"
                                ELSE "unknown tool")]_vars

\* C22 witness: the tool of k-b was registered (its last invocation was
\* accepted), the index k-b has been deleted, and after a further cycle only
\* the tool of kb1 is registered
C22_Witness ==
    /\ invoked = [tool |-> QueryTool("k-b"), result |-> "ok"]
    /\ registry = {QueryTool("kb1")}
    /\ ~inProgress
    /\ ValidIndex(St, "kb1") /\ "k-b" \notin buckets
    /\ req[1].op = "DeleteIndex" /\ req[1].name = "k-b"
    /\ req[1].pc = "done" /\ req[1].resp.code = 200

\* the timer callbacks that are running a cycle
RunningCycles == {c \in Cycles : cycle[c].pc # "idle"}

\* C23: at most one timer callback is running a cycle, and the guard is set
\* exactly while one is; a tick that fires while a cycle is running starts
\* no cycle.
C23_OneCycleAtATime ==
    [][/\ Cardinality(RunningCycles) <= 1
       /\ Cardinality(RunningCycles') <= 1
       /\ inProgress <=> RunningCycles # {}
       /\ RunningCycles # {} => RunningCycles' \subseteq RunningCycles]_vars

\* C23 witness: the cycle of one callback has polled and is changing the
\* registry while the other callback, whose tick would be skipped, is idle
C23_Witness ==
    /\ cycle[1].pc = "mutate" /\ cycle[1].unregister # {}
    /\ cycle[2].pc = "idle"
    /\ inProgress
    /\ ENABLED Tick(2)

\* callback c ends a cycle whose poll failed
PollFails(c) == cycle[c].pc = "poll" /\ cycle'[c].pc = "idle"

\* C24: a cycle goes on to change the registry only with the names of a
\* listing that answered with success; a cycle whose poll fails or times out
\* ends with the registry as it was, logs the failure and releases the
\* guard; as long as a cycle is polling no tool is registered or
\* unregistered; the tick that follows a failed poll starts a cycle that
\* polls the listing from the beginning.
C24_FailedPollChangesNothing ==
    [][\A c \in Cycles :
         /\ cycle[c].pc = "poll" => registry' = registry
         /\ (cycle[c].pc = "poll" /\ cycle'[c].pc = "mutate")
            => \E in \in FaultInputs :
                  LET s == HandleListRAGIndices(St, cycle[c].poll, in) IN
                  /\ s.rq.pc = "done" /\ s.rq.resp.code = 200
                  /\ cycle'[c].observed = Observed(s.rq.resp)
         /\ PollFails(c)
            => /\ lastCycle' = "poll failed"
               /\ ~inProgress'
               /\ cycle'[c] = NoCycle
         /\ (lastCycle = "poll failed" /\ cycle[c].pc = "idle"
                                       /\ cycle'[c].pc # "idle")
            => /\ cycle'[c].pc = "poll"
               /\ cycle'[c].poll = ListIndicesReq]_vars

\* C24 witness: both tools are registered, both buckets are gone and the
\* last cycle ended with a failed poll
C24_Witness ==
    /\ lastCycle = "poll failed"
    /\ ~inProgress
    /\ registry = ToolsOf(ReconcilerNames)
    /\ buckets = {}

\* the valid indices among the names of the reconciler's index service
ValidIndices == {n \in ReconcilerNames : ValidIndex(St, n)}

\* C25: for every set of names, if from some point on the valid indices are
\* exactly that set and cycles with a successful poll keep ending, then from
\* some point on the registered tools are exactly the tools of that set.
C25_Converges ==
    \A S \in SUBSET ReconcilerNames :
        (<>[](ValidIndices = S) /\ []<>(lastCycle = "reconciled"))
        => <>[](registry = ToolsOf(S))

\* the goroutines between Lock and Unlock, and those between RLock and
\* RUnlock
Writers ==
    {t \in Threads : /\ thread[t].op \in {"SetAgentHandler", "RemoveAgentHandler"}
                     /\ thread[t].pc \in {"store", "delete", "Unlock"}}
Readers ==
    {t \in Threads : thread[t].op = "ServeHTTP" /\ thread[t].pc \in {"read", "RUnlock"}}

\* no goroutine is in the map under the write lock together with another
\* one under either lock
Exclusion == Cardinality(Writers) <= 1 /\ (Writers # {} => Readers = {})

\* C26: in the handler mux, whose locking the tool registry follows,
\* (a) a request that has been handed to its handler is touched by no other
\* goroutine and ends with the handler's answer, and it holds no lock, so a
\* removal does not wait for it; (b) when RemoveAgentHandler returns the
\* entry is gone, an entry comes into the map only by the store of a
\* SetAgentHandler, and a lookup answers with what the map holds when it
\* reads, so a request that looks up a removed entry gets 404; (c) a
\* goroutine that changes the map under the write lock never overlaps a
\* goroutine that reads it under the read lock, nor another writer.
C26_Unregistration ==
    [][/\ Exclusion /\ Exclusion'
       /\ \A t \in Threads :
            /\ thread[t].pc = "serving"
               => /\ t \notin lock.readers /\ lock.writer # t
                  /\ \/ thread'[t] = thread[t]
                     \/ thread'[t] = [thread[t] EXCEPT !.pc = "done", !.code = 200]
            /\ (thread[t].op = "RemoveAgentHandler" /\ thread[t].pc = "Unlock")
               => /\ thread[t].ref \notin DOMAIN handlers
                  /\ thread[t].ref \notin DOMAIN handlers'
            /\ (thread[t].op = "ServeHTTP" /\ thread[t].pc = "read"
                                           /\ thread'[t].pc # "read")
               => thread'[t].handler = (IF thread[t].ref \in DOMAIN handlers
                                        THEN handlers[thread[t].ref] ELSE 0)
            /\ (thread[t].op = "ServeHTTP" /\ thread[t].pc = "dispatch"
                                           /\ thread'[t] # thread[t])
               => IF thread[t].handler = 0
                  THEN thread'[t].pc = "done" /\ thread'[t].code = 404
                  ELSE thread'[t].pc = "serving"
       /\ \A ref \in (DOMAIN handlers') \ (DOMAIN handlers) :
            \E t \in Threads :
               /\ thread[t].op = "SetAgentHandler" /\ thread[t].pc = "store"
               /\ thread[t].ref = ref /\ thread'[t].pc = "Unlock"]_vars

\* C26 witness: a request is with its handler, a RemoveAgentHandler of that
\* agent has returned and the entry is gone, and another request for the
\* agent was answered 404
C26_Witness ==
    \E t1, t2, t3 \in Threads :
        /\ thread[t1].op = "ServeHTTP" /\ thread[t1].pc = "serving"
        /\ thread[t2].op = "RemoveAgentHandler" /\ thread[t2].pc = "done"
        /\ thread[t2].ref = thread[t1].ref
        /\ thread[t1].ref \notin DOMAIN handlers
        /\ thread[t3].op = "ServeHTTP" /\ thread[t3].pc = "done"
        /\ thread[t3].ref = thread[t1].ref /\ thread[t3].code = 404

\* C27: while no DeleteIndex is issued, the step in which a CreateIndex
\* request answers success leaves its name a valid index, a valid index
\* stays a valid index in every later step, and a GetIndex run on it
\* answers success.
C27_CreatedIndexStays ==
    [][/\ \A r \in Slots :
            (req[r].op = "CreateIndex" /\ Completes(r) /\ req'[r].resp.code = 201)
            => ValidIndex(St', req[r].name)
       /\ \A n \in BucketNames :
            ValidIndex(St, n)
            => /\ ValidIndex(St', n)
               /\ Run(St', GetIndexReq(n)).rq.resp.code = 200]_vars

\* slot r holds the success response of a CreateIndex request
Created(r) ==
    req[r].op = "CreateIndex" /\ req[r].pc = "done" /\ req[r].resp.code = 201

\* C28: of the CreateIndex requests for one name whose responses are
\* outstanding at the same time, with no DeleteIndex ever issued, at most
\* one has answered success, and the metadata object of the name is the
\* metadata that request answered with.
C28_OneCreateSucceeds ==
    /\ \A r1, r2 \in Slots :
          (r1 # r2 /\ Created(r1) /\ Created(r2)) => req[r1].name # req[r2].name
    /\ \A r \in Slots :
          (Created(r) /\ metadataFile \in DOMAIN objects[req[r].name])
          => json_Unmarshal(objects[req[r].name][metadataFile]).index = req[r].resp.index

\* C29: every bucket that holds metadata that parses has its notification
\* hook armed.
C29_ValidIndexIsArmed ==
    \A b \in buckets : ValidIndex(St, b) => b \in notification

\* the handler run alone from the request's position to its response, its
\* store calls failing as the sequence faults says (a call beyond the end
\* of the sequence succeeds)
RECURSIVE RunWith(_, _, _)
RunWith(st, rq, faults) ==
    IF rq.pc = "done" THEN [st |-> st, rq |-> rq]
    ELSE LET f == IF faults = << >> THEN FALSE ELSE Head(faults)
             s == Step(st, rq, [fault |-> f, now |-> 1])
         IN  RunWith(s.st, s.rq, IF faults = << >> THEN << >> ELSE Tail(faults))

\* the third store call of the request fails: the status-store call of
\* DeleteDocument and of UploadDocument
StatusCallFails == <<FALSE, FALSE, TRUE>>

\* C30: take a valid index that holds the document D.MD and a status row for
\* it.  DeleteDocument removes the document and its status cleanup fails; the
\* file is uploaded again and the insert of its pending row fails; then
\* ListDocuments, with healthy stores, reports the new document without a
\* status or as pending, not with the status of the deleted document.
C30_OrphanedRows ==
    (\A r \in Slots : req[r].pc = "idle")
    => \A n \in BucketNames :
          (/\ ValidIndex(St, n)
           /\ "D.MD" \in DOMAIN objects[n]
           /\ <<n, "D.MD">> \in DOMAIN statuses)
          => LET del  == RunWith(St, DeleteDocumentReq(n, "D.MD"), StatusCallFails)
                 up   == RunWith(del.st, UploadDocumentReq(n, "D.MD"), StatusCallFails)
                 list == Run(up.st, ListDocumentsReq(n))
             IN  /\ del.rq.resp.code = 200
                 /\ up.rq.resp.code = 201
                 /\ list.rq.resp.code = 200
                 /\ \A d \in list.rq.resp.items :
                       d.name = "D.MD" => d.status \in {"", "pending"}

\* the schedules of store faults of a ListIndices request: none, the
\* bucket listing fails, the first or the second metadata read fails
ListFaults == {<< >>, <<TRUE>>, <<FALSE, TRUE>>, <<FALSE, FALSE, TRUE>>}

\* C31: a ListIndices request that answers 200 reports every valid index,
\* whatever store call failed while it ran; a metadata read that fails makes
\* the request answer an error.
C31_ListingIsComplete ==
    (\A r \in Slots : req[r].pc = "idle")
    => \A faults \in ListFaults :
          LET list == RunWith(St, ListIndicesReq, faults) IN
          list.rq.resp.code = 200
          => \A b \in buckets : ValidIndex(St, b) => b \in Observed(list.rq.resp)

\* DeleteDocument(n, f), run from the current stores: run once and run
\* twice with healthy stores, and run once with the status deletion failing
DeletedOnce(n, f) == Run(St, DeleteDocumentReq(n, f))
DeletedTwice(n, f) == Run(DeletedOnce(n, f).st, DeleteDocumentReq(n, f))
DeletedRowKept(n, f) == RunWith(St, DeleteDocumentReq(n, f), StatusCallFails)

\* what DeleteDocument(n, f) promises: 200 with or without the blob, the
\* blob and the row of f gone and nothing else changed, the second call a
\* no-op that answers 200, and 200 with the blob gone when the status
\* deletion fails
DeletesDocument(n, f) ==
    LET once == DeletedOnce(n, f)
        twice == DeletedTwice(n, f)
        kept == DeletedRowKept(n, f)
    IN  /\ once.rq.resp.code = 200
        /\ twice.rq.resp.code = 200
        /\ twice.st = once.st
        /\ once.st.buckets = buckets
        /\ once.st.notification = notification
        /\ DOMAIN once.st.objects[n] = (DOMAIN objects[n]) \ {f}
        /\ \A k \in DOMAIN once.st.objects[n] : once.st.objects[n][k] = objects[n][k]
        /\ \A b \in BucketNames \ {n} : once.st.objects[b] = objects[b]
        /\ DOMAIN once.st.statuses = (DOMAIN statuses) \ {<<n, f>>}
        /\ \A k \in DOMAIN once.st.statuses : once.st.statuses[k] = statuses[k]
        /\ kept.rq.resp.code = 200
        /\ kept.st.objects = once.st.objects

\* C32 (as claimed): DeleteDocument(n, f) on an existing bucket succeeds for
\* every file name f, is idempotent, and a failed status deletion does not
\* make it fail.
C32_AsClaimed ==
    (\A r \in Slots : req[r].pc = "idle")
    => \A n \in buckets : \A f \in PathFiles : DeletesDocument(n, f)

\* C32 (amended): the same for every file name but the reserved one, for
\* which the request answers 400 and changes nothing.
C32_DeleteDocumentIdempotent ==
    (\A r \in Slots : req[r].pc = "idle")
    => \A n \in buckets :
          /\ \A f \in PathFiles \ {metadataFile} : DeletesDocument(n, f)
          /\ DeletedOnce(n, metadataFile).rq.resp.code = 400
          /\ DeletedOnce(n, metadataFile).st = St

\* C32 witness: an idle service whose index kb1 holds D.MD with a status
\* row; the deletion removes both
C32_Witness ==
    /\ \A r \in Slots : req[r].pc = "idle"
    /\ "kb1" \in buckets
    /\ "D.MD" \in DOMAIN objects["kb1"]
    /\ <<"kb1", "D.MD">> \in DOMAIN statuses
    /\ "D.MD" \notin DOMAIN DeletedOnce("kb1", "D.MD").st.objects["kb1"]
    /\ <<"kb1", "D.MD">> \notin DOMAIN DeletedOnce("kb1", "D.MD").st.statuses
    /\ <<"kb1", "D.MD">> \in DOMAIN DeletedRowKept("kb1", "D.MD").st.statuses

\* the request of goroutine t has reached the handler lookup or was answered
\* by it or by an agent handler
LookedUp(t) ==
    \/ thread[t].pc \in {"RLock", "read", "RUnlock", "dispatch", "serving"}
    \/ thread[t].pc = "done" /\ thread[t].code \in {404, 200}

\* C33: with an authorizer, a request without a session is answered 401 and
\* a request the authorizer denies 403, whether or not a handler is
\* registered for the agent; such a request never reaches the handler lookup
\* and no handler is invoked for it, and only an authorized request is
\* answered 404 or by a handler.
C33_AuthorizationFirst ==
    authorizer
    => \A t \in Threads :
          thread[t].op = "ServeHTTP"
          => /\ thread[t].ref # << >> => thread[t].auth # "unchecked"
             /\ thread[t].auth = "no session"
                => thread[t].pc = "done" /\ thread[t].code = 401 /\ thread[t].handler = 0
             /\ thread[t].auth = "denied"
                => thread[t].pc = "done" /\ thread[t].code = 403 /\ thread[t].handler = 0
             /\ LookedUp(t) => thread[t].auth = "allowed"

\* C33 witness: the agent has no handler; one request without a session was
\* answered 401 and one that the authorizer denied 403
C33_Witness ==
    /\ authorizer
    /\ handlers = NoHandlers
    /\ \E t, u \in Threads :
          /\ thread[t].op = "ServeHTTP" /\ thread[t].auth = "no session"
          /\ thread[t].ref \in AgentRefs /\ thread[t].code = 401
          /\ thread[u].op = "ServeHTTP" /\ thread[u].auth = "denied"
          /\ thread[u].ref \in AgentRefs /\ thread[u].code = 403

\* what a lookup of ref finds in the map: the handler, 0 for none
Lookup(h, ref) == IF ref \in DOMAIN h THEN h[ref] ELSE 0
\* goroutine t returns from its call in this step
Returns(t) == thread[t].pc \notin {"idle", "done"} /\ thread'[t].pc = "done"

\* C34: under every interleaving of SetAgentHandler, RemoveAgentHandler and
\* ServeHTTP, (a) the map changes only in the store step of a
\* SetAgentHandler, which puts that call's handler under its agent, and in
\* the delete step of a RemoveAgentHandler, which takes the agent's entry
\* out, each by the goroutine that holds the write lock; (b) when
\* RemoveAgentHandler returns the agent has no entry, when SetAgentHandler
\* returns without error the map holds the handler it built, so a lookup
\* between a return and the next store or delete finds exactly that; (c) a
\* lookup that holds the read lock has read what the map holds, answers 404
\* only if it read no handler and otherwise hands the request to the
\* handler it read; (d) a change of the map does not touch a request that
\* is with its handler; (e) a SetAgentHandler whose server cannot be built
\* returns from its first step and has not changed the map.
C34_MapUnderInterleaving ==
    [][/\ handlers' # handlers
          => \E t \in Threads :
                /\ lock.writer = t /\ lock' = lock
                /\ \/ /\ thread[t].op = "SetAgentHandler" /\ thread[t].pc = "store"
                      /\ DOMAIN handlers' = (DOMAIN handlers) \cup {thread[t].ref}
                      /\ handlers'[thread[t].ref] = thread[t].handler
                      /\ \A k \in DOMAIN handlers : k # thread[t].ref => handlers'[k] = handlers[k]
                   \/ /\ thread[t].op = "RemoveAgentHandler" /\ thread[t].pc = "delete"
                      /\ DOMAIN handlers' = (DOMAIN handlers) \ {thread[t].ref}
                      /\ \A k \in DOMAIN handlers' : handlers'[k] = handlers[k]
       /\ \A t \in Threads :
            /\ (thread[t].op = "RemoveAgentHandler" /\ Returns(t))
               => Lookup(handlers', thread[t].ref) = 0
            /\ (thread[t].op = "SetAgentHandler" /\ Returns(t))
               => IF thread'[t].code = 0
                  THEN Lookup(handlers', thread[t].ref) = thread[t].handler
                  ELSE /\ thread[t].pc = "NewA2AServer" /\ thread'[t].code = 500
                       /\ handlers' = handlers /\ lock' = lock
            /\ (thread[t].op = "SetAgentHandler" /\ thread[t].pc \in {"NewA2AServer", "Lock"})
               => (handlers' = handlers \/ thread'[t] = thread[t])
            /\ (thread[t].op = "ServeHTTP" /\ thread[t].pc = "RUnlock")
               => /\ t \in lock.readers
                  /\ thread[t].handler = Lookup(handlers, thread[t].ref)
            /\ (thread[t].op = "ServeHTTP" /\ Returns(t) /\ thread'[t].code = 404)
               => thread[t].pc = "dispatch" /\ thread[t].handler = 0
            /\ (thread[t].op = "ServeHTTP" /\ thread'[t].pc = "serving")
               => thread'[t].handler \in Cards /\ thread'[t].handler = thread[t].handler
            /\ (thread[t].pc = "serving" /\ handlers' # handlers)
               => thread'[t] = thread[t]]_vars

\* C34 witness: a request is with handler 1 of the agent, a later
\* SetAgentHandler has returned and the map holds its handler 2, and another
\* SetAgentHandler returned the error of NewA2AServer
C34_Witness ==
    \E t1, t2, t3 \in Threads : \E ref \in AgentRefs :
        /\ thread[t1].op = "ServeHTTP" /\ thread[t1].pc = "serving"
        /\ thread[t1].ref = ref /\ thread[t1].handler = 1
        /\ thread[t2].op = "SetAgentHandler" /\ thread[t2].pc = "done"
        /\ thread[t2].code = 0 /\ thread[t2].ref = ref /\ thread[t2].handler = 2
        /\ Lookup(handlers, ref) = 2
        /\ thread[t3].op = "SetAgentHandler" /\ thread[t3].pc = "done"
        /\ thread[t3].code = 500 /\ thread[t3].ref = ref

\* the resource name has the form namespace/name
IsAgentRef(name) == \E i \in DOMAIN name : name[i] = "/"
\* the agents whose namespace "/" name is the resource name
AgentsNamed(name, kube) ==
    {key \in DOMAIN kube : name = key.namespace \o <<"/">> \o key.name}
\* the request is one the claim says is allowed
AllowedCase(userRoles, type, name, kube, fault) ==
    \/ type # "Agent"
    \/ name = << >>
    \/ /\ ~fault
       /\ \E key \in AgentsNamed(name, kube) :
             kube[key] = {} \/ kube[key] \cap userRoles # {}

\* C35: RBACAuthorizer.Check returns nil exactly for a resource that is not
\* an Agent, for an empty resource name, and for an agent namespace/name
\* that can be fetched and has no allowed roles or shares a role with the
\* principal; it returns an error for a name without a slash, for an agent
\* that cannot be fetched and for disjoint role sets; verb and user ID do
\* not change the result.
C35_CheckDecision ==
    (check.authorizer = "RBAC" /\ check.result # "pending")
    => /\ check.result = "nil"
          <=> AllowedCase(check.roles, check.type, check.name, agents, check.fault)
       /\ (check.type = "Agent" /\ check.name # << >>)
          => /\ ~IsAgentRef(check.name)
                => check.result = "invalid resource name format"
             /\ (IsAgentRef(check.name)
                 /\ (check.fault \/ AgentsNamed(check.name, agents) = {}))
                => check.result = "failed to get agent"
             /\ (~check.fault /\ \E key \in AgentsNamed(check.name, agents) :
                                    agents[key] # {} /\ agents[key] \cap check.roles = {})
                => check.result = "does not have required roles"
       /\ \A id \in UserIDs : \A verb \in Verbs :
             RBACAuthorizer_Check(check.roles, id, verb, check.type, check.name,
                                  agents, check.fault) = check.result

\* C35 witness: the agent n/a allows the role admin only; a principal with
\* the roles admin and dev was allowed
C35_Witness ==
    /\ check.authorizer = "RBAC" /\ check.result = "nil"
    /\ check.type = "Agent" /\ check.name = <<"n", "/", "a">>
    /\ check.roles = {"admin", "dev"}
    /\ ~check.fault
    /\ agents = [k \in AgentKeys |-> {"admin"}]

\* the agents that list the role in the cluster as it is
UsedBy(name) == {k \in DOMAIN agents : name \in agents[k]}
\* role request r takes the step that removes its role from the table
RemovesRole(r) ==
    /\ rolereq[r].op = "DeleteRole"
    /\ rolereq[r].name \in DOMAIN roles
    /\ rolereq[r].name \notin DOMAIN roles'
    /\ rolereq'[r].pc = "done"

\* C36: in the step in which a DeleteRole request removes its role no agent
\* lists the role, and a request that answers Conflict leaves the role
\* table as it is.
C36_NoRoleInUseDeleted ==
    [][\A r \in RoleSlots :
          /\ RemovesRole(r) => UsedBy(rolereq[r].name) = {}
          /\ (rolereq[r].op = "DeleteRole" /\ RunningRole(r)
                /\ rolereq'[r].pc = "done" /\ rolereq'[r].code = 409)
             => roles' = roles /\ UsedBy(rolereq[r].name) # {}]_vars

\* role request r takes a step of the handler op
RoleStep(r, op) == rolereq[r].op = op /\ RunningRole(r) /\ rolereq'[r] # rolereq[r]

\* C37: a step of a CreateRole request whose name is in the role table
\* leaves the table as it is and does not answer success, whatever the
\* other requests do and whether or not the lookup fails; so of two
\* CreateRole requests for a name at most one answers success.
C37_CreateKeepsExistingRole ==
    [][\A r \in RoleSlots :
          (RoleStep(r, "CreateRole") /\ rolereq[r].name \in DOMAIN roles)
          => roles' = roles /\ rolereq'[r].code # 201]_vars

\* C38: a step of an UpdateRole request changes at most the description of
\* a role that is in the table: it brings no role into the table, so a role
\* that a DeleteRole removed stays absent until a CreateRole stores it.
C38_UpdateNeverRevives ==
    [][\A r \in RoleSlots :
          RoleStep(r, "UpdateRole")
          => /\ DOMAIN roles' = DOMAIN roles
             /\ \A n \in DOMAIN roles : n # rolereq[r].name => roles'[n] = roles[n]]_vars

====
